---- MODULE Spec2Model ----
(***************************************************************************)
(* Model of the backup engine of kyosho-backup (src-tauri/src/ssh_client.rs *)
(* and its caller in src-tauri/src/main.rs).                                *)
(*                                                                          *)
(* One backup_xserver_folder invocation is followed from the reset of the   *)
(* application-wide cancel flag to the outcome the engine returns.  The     *)
(* remote tree, the results of the I/O calls, the wall clock and the other  *)
(* application commands that touch the cancel flag are the environment.     *)
(***************************************************************************)
EXTENDS Integers, Sequences, FiniteSets, TLC

(***************************************************************************)
(* Bounds of the model.                                                     *)
(***************************************************************************)
\* total number of entries (files, directories, others) of a small remote tree
MaxNodes == 3
\* the wall clock stops advancing at this many seconds
MaxClock == 4
\* number of reads of one run that may report ErrorKind::Interrupted
MaxInterrupts == 1

(***************************************************************************)
(* Program constants.                                                       *)
(***************************************************************************)
MAX_DEPTH == 50
UPDATE_INTERVAL == 3
BYTE_THRESHOLD == 50 * 1024 * 1024
BUFFER_SIZE == 128 * 1024

(***************************************************************************)
(* Text.  A string is a sequence of characters; an ASCII character is a     *)
(* one-letter string, and a run of non-ASCII text (Japanese, emoji) is one  *)
(* element, which no ASCII keyword can match or span.                       *)
(***************************************************************************)
UpperCase == <<"A","B","C","D","E","F","G","H","I","J","K","L","M",
               "N","O","P","Q","R","S","T","U","V","W","X","Y","Z">>
LowerCase == <<"a","b","c","d","e","f","g","h","i","j","k","l","m",
               "n","o","p","q","r","s","t","u","v","w","x","y","z">>

\* char::to_lowercase on one character
LowerChar(c) ==
    IF \E i \in 1..26 : UpperCase[i] = c
    THEN LowerCase[CHOOSE i \in 1..26 : UpperCase[i] = c]
    ELSE c

\* str::to_lowercase
to_lowercase(s) == [i \in 1..Len(s) |-> LowerChar(s[i])]

\* str::contains with a string pattern
contains(s, pat) ==
    \E i \in 1..(Len(s) - Len(pat) + 1) : SubSeq(s, i, i + Len(pat) - 1) = pat

(***************************************************************************)
(* Remote names.  A name is the byte string the SFTP server sent.           *)
(***************************************************************************)
Dot == 46

\* the name of the entry at position i of a listing, in its three variants:
\* "a", ".a" and the bytes 2E FF 61 (starts with '.', is not valid UTF-8)
PlainName(i)  == <<96 + i>>
HiddenName(i) == <<Dot, 96 + i>>
RawName(i)    == <<Dot, 255, 96 + i>>

\* OsStr::to_str: Some(text) for valid UTF-8, None otherwise.  The names of
\* the model are made of ASCII bytes and the byte FF, which no UTF-8 text holds.
to_str(name) ==
    IF \A i \in 1..Len(name) : name[i] < 128
    THEN [some |-> TRUE, text |-> name]
    ELSE [some |-> FALSE, text |-> <<>>]

\* str::starts_with('.')
starts_with_dot(text) == Len(text) > 0 /\ text[1] = Dot

\* the name begins with the byte '.', whatever follows
BeginsWithDot(name) == Len(name) > 0 /\ name[1] = Dot

\* ssh_client.rs:742-746, the hidden-entry filter of the traversal
IsSkippedHidden(name) ==
    LET s == to_str(name) IN s.some /\ starts_with_dot(s.text)

\* one byte of a name as it is rendered in a message
CharOf(b) ==
    IF b = Dot THEN "."
    ELSE IF b >= 97 /\ b <= 122 THEN LowerCase[b - 96]
    ELSE "\\xFF"

RenderName(name) == [i \in 1..Len(name) |-> CharOf(name[i])]

\* the backup roots the caller passes in
RemoteRoot == <<"/", "r">>
LocalRoot  == <<"/", "l">>

RECURSIVE RenderPath(_, _)
RenderPath(root, path) ==
    IF path = <<>> THEN root
    ELSE RenderPath(root, SubSeq(path, 1, Len(path) - 1))
             \o <<"/">> \o RenderName(path[Len(path)])

\* Path::display()
Display(root, path) == RenderPath(root, path)
\* {:?} of a Path
DebugPath(root, path) == <<"\"">> \o RenderPath(root, path) \o <<"\"">>

(***************************************************************************)
(* SshClient::classify_error, ssh_client.rs:539-620.                        *)
(***************************************************************************)
KwAuthentication == <<"a","u","t","h","e","n","t","i","c","a","t","i","o","n">>
KwPublickey == <<"p","u","b","l","i","c","k","e","y">>
KwPassphrase == <<"p","a","s","s","p","h","r","a","s","e">>
KwPermissionDeniedPublickey == <<"p","e","r","m","i","s","s","i","o","n"," ","d","e","n","i","e","d"," ","(","p","u","b","l","i","c","k","e","y",")">>
KwConnection == <<"c","o","n","n","e","c","t","i","o","n">>
KwTimeout == <<"t","i","m","e","o","u","t">>
KwDns == <<"d","n","s">>
KwNetwork == <<"n","e","t","w","o","r","k">>
KwHost == <<"h","o","s","t">>
KwPermissionDenied == <<"p","e","r","m","i","s","s","i","o","n"," ","d","e","n","i","e","d">>
KwAccessDenied == <<"a","c","c","e","s","s"," ","d","e","n","i","e","d">>
KwForbidden == <<"f","o","r","b","i","d","d","e","n">>
KwNoSpace == <<"n","o"," ","s","p","a","c","e">>
KwDiskFull == <<"d","i","s","k"," ","f","u","l","l">>
KwQuota == <<"q","u","o","t","a">>
KwTimedOut == <<"t","i","m","e","d"," ","o","u","t">>
KwNoSuchFile == <<"n","o"," ","s","u","c","h"," ","f","i","l","e">>
KwNotFound == <<"n","o","t"," ","f","o","u","n","d">>
KwInvalidPath == <<"i","n","v","a","l","i","d"," ","p","a","t","h">>

\* the fixed part of each template: the emoji-tagged heading and its cause
\* list, up to and including the label that precedes the original error text.
\* A run of Japanese text or an emoji is written as one element "<...>"; the
\* only ASCII letters of the templates are "SSH" and "VPN" in two cause lists.
AuthTemplate     == <<"<lock-emoji ninshou-error: >", "S", "S", "H", "<himitsukagi no kakunin ... shousai: >">>
NetworkTemplate  == <<"<globe-emoji network-error: ... >", "V", "P", "N", "<no settei wo kakunin ... shousai: >">>
PermTemplate     == <<"<no-entry-emoji kengen-error: ... shousai: >">>
DiskTemplate     == <<"<disk-emoji disk-youryou-error: ... shousai: >">>
\* mutant: the heading of the timeout template is in English
TimeoutTemplate_english == <<"<stopwatch-emoji>", "t", "i", "m", "e", "o", "u", "t", " ", "e", "r", "r", "o", "r", "<: shori jikan ... shousai: >">>
TimeoutTemplate  == <<"<stopwatch-emoji timeout-error: shori jikan ... shousai: >">>
FsTemplate       == <<"<folder-emoji filesystem-error: ... shousai: >">>
FallbackTemplate == <<"<cross-emoji error ga hassei shimashita: >">>

Templates == {AuthTemplate, NetworkTemplate, PermTemplate, DiskTemplate,
              TimeoutTemplate, FsTemplate, FallbackTemplate}

\* mutant: the network keywords are looked for before the authentication ones
Category_network_first(error) ==
    LET error_str == to_lowercase(error) IN
    IF \/ contains(error_str, KwConnection)
       \/ contains(error_str, KwTimeout)
       \/ contains(error_str, KwDns)
       \/ contains(error_str, KwNetwork)
       \/ contains(error_str, KwHost)
    THEN "Network"
    ELSE IF \/ contains(error_str, KwAuthentication)
            \/ contains(error_str, KwPublickey)
            \/ contains(error_str, KwPassphrase)
            \/ contains(error_str, KwPermissionDeniedPublickey)
    THEN "Authentication"
    ELSE IF \/ contains(error_str, KwPermissionDenied)
            \/ contains(error_str, KwAccessDenied)
            \/ contains(error_str, KwForbidden)
    THEN "Permission"
    ELSE IF \/ contains(error_str, KwNoSpace)
            \/ contains(error_str, KwDiskFull)
            \/ contains(error_str, KwQuota)
    THEN "Disk"
    ELSE IF contains(error_str, KwTimeout) \/ contains(error_str, KwTimedOut)
    THEN "Timeout"
    ELSE IF \/ contains(error_str, KwNoSuchFile)
            \/ contains(error_str, KwNotFound)
            \/ contains(error_str, KwInvalidPath)
    THEN "Filesystem"
    ELSE "Fallback"

\* the category classify_error picks for the rendered message error
Category(error) ==
    LET error_str == to_lowercase(error) IN
    IF \/ contains(error_str, KwAuthentication)
       \/ contains(error_str, KwPublickey)
       \/ contains(error_str, KwPassphrase)
       \/ contains(error_str, KwPermissionDeniedPublickey)
    THEN "Authentication"
    ELSE IF \/ contains(error_str, KwConnection)
            \/ contains(error_str, KwTimeout)
            \/ contains(error_str, KwDns)
            \/ contains(error_str, KwNetwork)
            \/ contains(error_str, KwHost)
    THEN "Network"
    ELSE IF \/ contains(error_str, KwPermissionDenied)
            \/ contains(error_str, KwAccessDenied)
            \/ contains(error_str, KwForbidden)
    THEN "Permission"
    ELSE IF \/ contains(error_str, KwNoSpace)
            \/ contains(error_str, KwDiskFull)
            \/ contains(error_str, KwQuota)
    THEN "Disk"
    ELSE IF contains(error_str, KwTimeout) \/ contains(error_str, KwTimedOut)
    THEN "Timeout"
    ELSE IF \/ contains(error_str, KwNoSuchFile)
            \/ contains(error_str, KwNotFound)
            \/ contains(error_str, KwInvalidPath)
    THEN "Filesystem"
    ELSE "Fallback"

TemplateOf(cat) ==
    CASE cat = "Authentication" -> AuthTemplate
      [] cat = "Network"        -> NetworkTemplate
      [] cat = "Permission"     -> PermTemplate
      [] cat = "Disk"           -> DiskTemplate
      [] cat = "Timeout"        -> TimeoutTemplate
      [] cat = "Filesystem"     -> FsTemplate
      [] OTHER                  -> FallbackTemplate

\* the template in front of the original error text
classify_error(error) == TemplateOf(Category(error)) \o error

\* the message starts with template t
HasTemplate(msg, t) == Len(msg) >= Len(t) /\ SubSeq(msg, 1, Len(t)) = t


(***************************************************************************)
(* The messages of the failures, as the code formats them.  Display shows   *)
(* only the outermost context of an anyhow error, so the text of the        *)
(* underlying ssh2 or io error is not part of the message.                  *)
(***************************************************************************)
\* ssh_client.rs:714, 737 and 444
CancelMsg == <<"<no-entry-emoji backup ga cancel saremashita>">>
\* ssh_client.rs:719
TooDeepMsg(path) == <<"<directory no kaisou ga fukasugimasu: >">> \o Display(RemoteRoot, path)
\* ssh_client.rs:724
MkdirMsg(path) == <<"<local directory no sakusei ni shippai: >">> \o DebugPath(LocalRoot, path)
\* ssh_client.rs:732
ReaddirMsg(path) == <<"<remote directory no yomitori ni shippai: >">> \o DebugPath(RemoteRoot, path)
\* ssh_client.rs:773
OpenMsg(path) == <<"<remote file no open ni shippai: >">> \o DebugPath(RemoteRoot, path)
\* ssh_client.rs:776
CreateMsg(path) == <<"<local file no sakusei ni shippai: >">> \o DebugPath(LocalRoot, path)
\* ssh_client.rs:780
CopyMsg(path) == <<"<file tensou ni shippai: >">> \o DebugPath(RemoteRoot, path)
\* ssh_client.rs:390
SftpMsg == <<"S", "F", "T", "P", "<session no sakusei ni shippai shimashita>">>
\* ssh_client.rs:394
LocalRootMsg == <<"<local backup directory no sakusei ni shippai shimashita>">>
\* ssh_client.rs:408
RootMissingMsg == <<"<remote folder ga mitsukarimasen: >">> \o RemoteRoot
\* ssh_client.rs:411
RootNotDirMsg == <<"<shitei sareta remote path wa directory dewa arimasen: >">> \o RemoteRoot

\* the failures of session establishment and their messages,
\* ssh_client.rs:105, 113, 118 and 176
EstablishFailures ==
    { [cause |-> "TcpConnectFailed", msg |-> <<"T", "C", "P", "<setsuzoku ni shippai shimashita>">>],
      [cause |-> "HandshakeFailed",  msg |-> <<"S", "S", "H", "<handshake ni shippai shimashita>">>],
      [cause |-> "KeyFileMissing",   msg |-> <<"<himitsukagi file ga mitsukarimasen: >", "/", "k">>],
      [cause |-> "NotAuthenticated", msg |-> <<"S", "S", "H", "<ninshou ni shippai shimashita>">>] }

(***************************************************************************)
(* Remote trees.  A listing is the sequence of entries readdir returns for  *)
(* one directory; an entry carries its name, its kind as FileStat reports   *)
(* it (is_file, is_dir, neither), the number of bytes of a file and the     *)
(* listing of a directory.                                                  *)
(***************************************************************************)
\* the length in bytes of every remote file of the model
FileLen == 5

NamesAt(i) == {PlainName(i), HiddenName(i), RawName(i)}

FileEntry(n)     == [name |-> n, kind |-> "file",  bytes |-> FileLen, sub |-> <<>>]
OtherEntry(n)    == [name |-> n, kind |-> "other", bytes |-> 0, sub |-> <<>>]
DirEntry(n, sub) == [name |-> n, kind |-> "dir",   bytes |-> 0, sub |-> sub]

\* the listings with n entries in all, sub-directories included; names are
\* given by position, so that the names of one listing are distinct
RECURSIVE Forest(_)
Forest(n) ==
    IF n = 0 THEN {<<>>}
    ELSE UNION { UNION { { Append(rest, e) :
                             e \in IF k = 0
                                   THEN {FileEntry(nm) : nm \in NamesAt(Len(rest) + 1)}
                                        \cup {DirEntry(nm, <<>>) : nm \in NamesAt(Len(rest) + 1)}
                                        \cup {OtherEntry(PlainName(Len(rest) + 1))}
                                   ELSE {DirEntry(nm, sub) :
                                             nm \in NamesAt(Len(rest) + 1), sub \in Forest(k)} } :
                         rest \in Forest(n - 1 - k) } :
                 k \in 0..(n - 1) }

SmallTrees == UNION {Forest(n) : n \in 0..MaxNodes}

\* a chain of n nested directories "a/a/.../a" with one file in the last
RECURSIVE DeepChain(_)
DeepChain(n) ==
    IF n = 0 THEN <<FileEntry(PlainName(1))>>
    ELSE <<DirEntry(PlainName(1), DeepChain(n - 1))>>

\* the directory at depth MAX_DEPTH is the deepest the guard lets through
DeepTrees == {DeepChain(MAX_DEPTH), DeepChain(MAX_DEPTH + 1)}

\* a directory of two files followed by a file of its parent, so that
\* progress can be reported from the directory and then from the parent
NestedTrees ==
    { <<DirEntry(PlainName(1), <<FileEntry(PlainName(1)), FileEntry(PlainName(2))>>),
        FileEntry(PlainName(2))>> }

RemoteStates ==
    { [kind |-> "missing", list |-> <<>>], [kind |-> "file", list |-> <<>>] }
    \cup { [kind |-> "dir", list |-> t] : t \in SmallTrees \cup DeepTrees \cup NestedTrees }

(***************************************************************************)
(* ProgressThrottle, ssh_client.rs:33-78.                                   *)
(***************************************************************************)
\* ProgressThrottle::new at clock reading t
ThrottleNew(t) == [last_update |-> t, last_bytes |-> 0, start_time |-> t]

\* u64::saturating_sub
saturating_sub(a, b) == IF a >= b THEN a - b ELSE 0

\* mutant: both thresholds must be exceeded, not reached
ShouldUpdateResult_strict(th, transferred_bytes, t) ==
    LET time_elapsed  == t - th.last_update > UPDATE_INTERVAL
        bytes_elapsed == saturating_sub(transferred_bytes, th.last_bytes) > BYTE_THRESHOLD
    IN  time_elapsed \/ bytes_elapsed

\* the decision of ProgressThrottle::should_update at clock reading t
ShouldUpdateResult(th, transferred_bytes, t) ==
    LET time_elapsed  == t - th.last_update >= UPDATE_INTERVAL
        bytes_elapsed == saturating_sub(transferred_bytes, th.last_bytes) >= BYTE_THRESHOLD
    IN  time_elapsed \/ bytes_elapsed

\* the throttle after ProgressThrottle::should_update at clock reading t
ShouldUpdateState(th, transferred_bytes, t) ==
    IF ShouldUpdateResult(th, transferred_bytes, t)
    THEN [th EXCEPT !.last_update = t, !.last_bytes = transferred_bytes]
    ELSE th

get_elapsed_seconds(th, t) == t - th.start_time

(***************************************************************************)
(* State.                                                                   *)
(***************************************************************************)
VARIABLES
    remote,        \* the remote root: its kind and, for a directory, its listing
    cancel_flag,   \* AppState.backup_cancel_flag
    session,       \* SshClient.session: "None" or "Some"
    pc,            \* where the backup invocation stands
    stack,         \* the frames of backup_directory_recursive_with_cancel_and_progress
    xfer,          \* the locals of the transfer in flight
    now,           \* the wall clock, in seconds
    top_throttle,  \* the ProgressThrottle of backup_folder_with_cancel_and_progress
    events,        \* the progress events the sink has received, in order
    local,         \* the local file system at and below the local root: a set of nodes
    outcome,       \* what backup_folder_with_cancel_and_progress returned
    transferred_files, \* the local of that name, ssh_client.rs:425
    copied,        \* history: the files fully copied by this invocation, in order
    sig,           \* history: what happened to the cancel flag during the run
    failed,        \* history: the first failure raised inside the invocation
    deepest,       \* history: the greatest depth the traversal was called with
    interrupts,    \* history: number of interrupted reads so far
    connections,   \* history: the connections this SshClient has opened
    overdue,       \* history: the deadline that passed while its future ran
    first_run,     \* history: what the previous successful run left behind
    unit,          \* the call of a function on its own: its arguments and its result
    twin,          \* the second of two runs that are compared, and the sink in use
    history,       \* the BackupHistory stored in backup_history.json
    auth_settings, \* the AuthSettings stored in auth_settings.json
    lockout_info,  \* the LockoutInfo stored in lockout_info.json
    reply          \* what the last command on these files returned

\* the files of the configuration directory and the answer of their commands
FileVars == <<history, auth_settings, lockout_info, reply>>

vars == <<remote, cancel_flag, session, pc, stack, xfer, now, top_throttle,
          events, local, outcome, transferred_files, copied, sig, failed, deepest,
          interrupts, connections, overdue, first_run, unit, twin, FileVars>>

None == [some |-> FALSE]
Some(v) == [some |-> TRUE, v |-> v]

\* backup_history.rs:37-47, BackupHistory::default
BackupHistoryDefault ==
    [entries |-> <<>>, last_updated |-> 0, total_backups |-> 0,
     successful_backups |-> 0, failed_backups |-> 0]
\* auth_manager.rs:18-27, AuthSettings::default
AuthSettingsDefault ==
    [pin_hash |-> None, is_enabled |-> FALSE, max_attempts |-> 3,
     lockout_duration_minutes |-> 15]
\* auth_manager.rs:36-44, LockoutInfo::default
LockoutInfoDefault == [failed_attempts |-> 0, last_attempt_timestamp |-> 0, is_locked |-> FALSE]
\* no command on the files has returned yet
NoReply == [fn |-> "none", ok |-> TRUE, v |-> <<>>, calls |-> 0]
\* a missing file is read as the default value: load_history (218-220),
\* load_auth_settings (212-214), load_lockout_info (238-240)
NoFiles ==
    /\ history = BackupHistoryDefault
    /\ auth_settings = AuthSettingsDefault
    /\ lockout_info = LockoutInfoDefault
    /\ reply = NoReply

NoXfer == [active |-> FALSE, remaining |-> 0, total_bytes |-> 0]
NoOutcome == [kind |-> "none", cause |-> "none", msg |-> <<>>, files |-> 0]
NoSig == [at_start |-> FALSE, set |-> FALSE, cleared |-> FALSE, late |-> FALSE]
NoRun == [done |-> FALSE, local |-> {}, files |-> 0]
NoCall == [fn |-> "none", called |-> FALSE]
\* one run on its own, with the sink of main.rs:153-155
NoTwin == [on |-> FALSE, turn |-> "first", sink |-> "emit", mine |-> <<>>,
           parked |-> <<>>, pending |-> <<>>]

\* progress_callback(BackupProgress {..}) for each of the snapshots in turn:
\* the sink of main.rs:153-155 hands them to the window, the sink of
\* backup_folder_with_cancel (ssh_client.rs:351) drops them
progress_callback(received, snapshots) ==
    IF twin.sink = "noop" THEN received ELSE received \o snapshots

\* BackupProgress, ssh_client.rs:22-30 (transfer_speed, a float derived from
\* the bytes and the elapsed time, is left out); at is the clock reading at
\* which the sink received the event
Progress(phase, files, total, bytes, current, elapsed) ==
    [phase |-> phase, transferred_files |-> files, total_files |-> total,
     transferred_bytes |-> bytes, current_file |-> current,
     elapsed_seconds |-> elapsed, at |-> now]

\* a frame of the recursion: the arguments remote_dir/local_dir (the same
\* relative path below the two roots) and depth, the locals entries,
\* total_files, total_transferred_bytes and throttle, and the position i of
\* the for loop; listing is what the server holds for remote_dir
Frame(path, depth, listing) ==
    [path |-> path, depth |-> depth, listing |-> listing, entries |-> <<>>, i |-> 1,
     total_files |-> 0, total_transferred_bytes |-> 0, throttle |-> ThrottleNew(0)]

Top == stack[Len(stack)]
SetTop(f) == [stack EXCEPT ![Len(stack)] = f]
CurEntry == Top.entries[Top.i]
CurPath == Append(Top.path, CurEntry.name)

Init ==
    /\ remote \in RemoteStates
    /\ cancel_flag \in BOOLEAN
    /\ session = "None"
    /\ pc = "idle"
    /\ stack = <<>>
    /\ xfer = NoXfer
    /\ now = 0
    /\ top_throttle = ThrottleNew(0)
    /\ events = <<>>
    /\ local = {}
    /\ outcome = NoOutcome
    /\ transferred_files = 0
    /\ copied = <<>>
    /\ sig = NoSig
    /\ failed = "none"
    /\ deepest = 0
    /\ interrupts = 0
    /\ connections = 0
    /\ overdue = "none"
    /\ first_run = NoRun
    /\ unit = NoCall
    /\ twin = NoTwin
    /\ NoFiles

\* mutant: the engine is handed a fresh flag, as backup_folder does
polled_flag_fresh == FALSE

\* the flag the engine polls is the application-wide one, main.rs:158
polled_flag == cancel_flag

\* the three cancellation checkpoints: cancel_flag.load(Ordering::Relaxed)
\* at ssh_client.rs:713, 736 and 434
dir_checkpoint == polled_flag
\* mutant: the loop does not poll the flag
entry_checkpoint_missing == FALSE
entry_checkpoint == polled_flag
\* mutant: the flag is not polled after the traversal
final_checkpoint_missing == FALSE
\* mutant: the flag is looked at only if the sink has kept a snapshot
final_checkpoint_when_heard == polled_flag /\ events # <<>>
final_checkpoint == polled_flag

\* mutant: the guard lets one more level through
too_deep_off_by_one(depth) == depth > MAX_DEPTH + 1

\* the depth guard, ssh_client.rs:718
too_deep(depth) == depth > MAX_DEPTH

\* total_files += sub_files, ssh_client.rs:803
add_sub_files(total_files, sub_files) == total_files + sub_files

\* mutant: the error is recorded as the outcome but the engine keeps going
Fail_keeps_running(cause, err) ==
    /\ failed' = cause
    /\ outcome' = [kind |-> "Err", cause |-> cause, msg |-> classify_error(err), files |-> 0]
    /\ UNCHANGED <<pc, stack, xfer>>

\* an error leaves the traversal through every `?` up to the match of
\* ssh_client.rs:462-464, which hands it to classify_error
Fail(cause, err) ==
    /\ failed' = cause
    /\ outcome' = [kind |-> "Err", cause |-> cause, msg |-> classify_error(err), files |-> 0]
    /\ pc' = "done"
    /\ stack' = <<>>
    /\ xfer' = NoXfer

\* the variables no step of the engine writes
EnvVars == <<remote, cancel_flag, sig, now, interrupts, overdue, first_run, unit, twin, FileVars>>

\* the local file system: a node is a directory or a file with its bytes
LocalDir(path) == [path |-> path, kind |-> "dir", bytes |-> 0]
LocalFile(path, n) == [path |-> path, kind |-> "file", bytes |-> n]
LocalAt(path) == {n \in local : n.path = path}
Prefixes(path) == {SubSeq(path, 1, k) : k \in 0..Len(path)}
\* std::fs::create_dir_all: the directory and every missing ancestor
create_dir_all(path) ==
    local \cup {LocalDir(q) : q \in {q \in Prefixes(path) : LocalAt(q) = {}}}
\* mutant: an existing file is opened as it is, not truncated
file_create_keeps_content(path) ==
    IF LocalAt(path) = {} THEN local \cup {LocalFile(path, 0)} ELSE local
\* std::fs::File::create: a new empty file, or the existing one truncated
file_create(path) == (local \ LocalAt(path)) \cup {LocalFile(path, 0)}
\* write_all of n bytes at the end of the file
write_all(path, n) ==
    {IF nd.path = path THEN [nd EXCEPT !.bytes = @ + n] ELSE nd : nd \in local}

(***************************************************************************)
(* The caller, main.rs.                                                     *)
(***************************************************************************)
\* main.rs:132-146: the command resets the flag and builds a fresh SshClient
backup_xserver_folder ==
    /\ pc = "idle"
    /\ cancel_flag' = FALSE
    /\ session' = "None"
    /\ connections' = 0
    /\ pc' = "called"
    /\ UNCHANGED <<overdue, first_run, unit, remote, sig, now, interrupts, stack, xfer, top_throttle, events,
                   local, outcome, transferred_files, copied, failed, deepest, twin, FileVars>>

\* main.rs:379-383, from another task while the backup is running; late
\* records a request that comes after the last checkpoint was passed
cancel_backup ==
    /\ pc \notin {"idle", "done"}
    /\ ~cancel_flag
    /\ cancel_flag' = TRUE
    /\ sig' = [sig EXCEPT !.set = TRUE, !.late = (pc = "complete" /\ ~sig.set)]
    /\ UNCHANGED <<overdue, first_run, unit, remote, now, interrupts, session, connections, pc, stack, xfer, top_throttle,
                   events, local, outcome, transferred_files, copied, failed, deepest, twin, FileVars>>

\* main.rs:135 executed by a second backup_xserver_folder command that is
\* started while this one is running: the flag is application-wide
second_backup_resets_flag ==
    /\ pc \notin {"idle", "done"}
    /\ cancel_flag
    /\ cancel_flag' = FALSE
    /\ sig' = [sig EXCEPT !.cleared = TRUE]
    /\ UNCHANGED <<overdue, first_run, unit, remote, now, interrupts, session, connections, pc, stack, xfer, top_throttle,
                   events, local, outcome, transferred_files, copied, failed, deepest, twin, FileVars>>

(***************************************************************************)
(* backup_folder_with_progress and backup_folder_with_cancel_and_progress,  *)
(* ssh_client.rs:329-472.                                                   *)
(***************************************************************************)
\* mutant: the session is established whether or not the client holds one
backup_folder_with_progress_reconnects ==
    /\ pc = "called"
    /\ top_throttle' = ThrottleNew(now)
    /\ events' = progress_callback(events,
             <<Progress("connecting", 0, None, 0, None, 0)>>
             \o (IF session = "None"
                 THEN <<Progress("ssh_connecting", 0, None, 0, None,
                                 get_elapsed_seconds(ThrottleNew(now), now))>>
                 ELSE <<>>))
    /\ pc' = "connect"
    /\ sig' = [at_start |-> cancel_flag, set |-> cancel_flag, cleared |-> FALSE,
               late |-> FALSE]
    /\ UNCHANGED <<overdue, first_run, unit, remote, cancel_flag, now, interrupts, session, connections, stack, xfer, local,
                   outcome, transferred_files, copied, failed, deepest, twin, FileVars>>

\* ssh_client.rs:333-371: the first event, the throttle, and the event that
\* precedes session establishment when the client has no session
backup_folder_with_progress ==
    /\ pc = "called"
    /\ top_throttle' = ThrottleNew(now)
    /\ events' = progress_callback(events,
             <<Progress("connecting", 0, None, 0, None, 0)>>
             \o (IF session = "None"
                 THEN <<Progress("ssh_connecting", 0, None, 0, None,
                                 get_elapsed_seconds(ThrottleNew(now), now))>>
                 ELSE <<>>))
    /\ pc' = IF session = "None" THEN "connect" ELSE "sftp"
    /\ sig' = [at_start |-> cancel_flag, set |-> cancel_flag, cleared |-> FALSE,
               late |-> FALSE]
    /\ UNCHANGED <<overdue, first_run, unit, remote, cancel_flag, now, interrupts, session, connections, stack, xfer, local,
                   outcome, transferred_files, copied, failed, deepest, twin, FileVars>>

\* ssh_client.rs:372 with test_connection, ssh_client.rs:101-213: the session
\* is stored on success; a failure is classified by test_connection (line 206)
\* and its text is classified again by Fail
test_connection ==
    /\ pc = "connect"
    /\ \/ /\ session' = "Some"
          /\ connections' = connections + 1
          /\ pc' = "sftp"
          /\ UNCHANGED <<stack, xfer, outcome, failed>>
       \/ /\ \E f \in EstablishFailures :
                /\ Fail(f.cause, classify_error(f.msg))
                /\ connections' = IF f.cause = "TcpConnectFailed" THEN connections
                                  ELSE connections + 1
          /\ UNCHANGED session
    /\ UNCHANGED <<EnvVars, top_throttle, events, local, transferred_files, copied,
                   deepest>>

\* ssh_client.rs:378-390
open_sftp ==
    /\ pc = "sftp"
    /\ events' = progress_callback(events, <<Progress("sftp_creating", 0, None, 0, None,
                                         get_elapsed_seconds(top_throttle, now))>>)
    /\ \/ /\ pc' = "mkroot"
          /\ UNCHANGED <<stack, xfer, outcome, failed>>
       \/ Fail("SftpFailed", SftpMsg)
    /\ UNCHANGED <<EnvVars, session, connections, top_throttle, local, transferred_files, copied,
                   deepest>>

\* ssh_client.rs:392-394
create_local_root ==
    /\ pc = "mkroot"
    /\ \/ /\ local' = create_dir_all(<<>>)
          /\ pc' = "stat"
          /\ UNCHANGED <<stack, xfer, outcome, failed>>
       \/ /\ Fail("LocalRootFailed", LocalRootMsg)
          /\ UNCHANGED local
    /\ UNCHANGED <<EnvVars, session, connections, top_throttle, events, transferred_files, copied,
                   deepest>>

\* ssh_client.rs:396-432: the remote root is checked, and the traversal is
\* called on it with depth 0
stat_remote_root ==
    /\ pc = "stat"
    /\ LET checking == Progress("checking_remote", 0, None, 0, Some(RemoteRoot),
                                get_elapsed_seconds(top_throttle, now))
           starting == Progress("transfer_start", 0, None, 0, None,
                                get_elapsed_seconds(top_throttle, now))
       IN  \/ /\ remote.kind = "dir"
              /\ events' = progress_callback(events, <<checking, starting>>)
              /\ stack' = <<Frame(<<>>, 0, remote.list)>>
              /\ pc' = "dir_enter"
              /\ UNCHANGED <<xfer, outcome, failed>>
           \/ /\ remote.kind = "file"
              /\ events' = progress_callback(events, <<checking>>)
              /\ Fail("RemoteRootNotDirectory", RootNotDirMsg)
           \/ /\ events' = progress_callback(events, <<checking>>)
              /\ Fail("RemoteRootMissing", RootMissingMsg)
    /\ UNCHANGED <<EnvVars, session, connections, top_throttle, local, transferred_files, copied,
                   deepest>>

(***************************************************************************)
(* backup_directory_recursive_with_cancel_and_progress, ssh_client.rs:      *)
(* 699-810.  The top of the stack is the call that is running.              *)
(***************************************************************************)
\* ssh_client.rs:712-720: the cancellation checkpoint and the depth guard at
\* the start of a call
dir_enter ==
    /\ pc = "dir_enter"
    /\ IF dir_checkpoint
       THEN Fail("Cancelled", CancelMsg)
       ELSE IF too_deep(Top.depth)
       THEN Fail("RecursionTooDeep", TooDeepMsg(Top.path))
       ELSE /\ pc' = "mkdir"
            /\ UNCHANGED <<stack, xfer, outcome, failed>>
    /\ UNCHANGED <<EnvVars, session, connections, top_throttle, events, local, transferred_files,
                   copied, deepest>>

\* ssh_client.rs:722-728: the local directory, then the counters and the
\* throttle of this call
dir_create ==
    /\ pc = "mkdir"
    /\ \/ /\ local' = create_dir_all(Top.path)
          /\ stack' = SetTop([Top EXCEPT !.total_files = 0,
                                         !.total_transferred_bytes = 0,
                                         !.throttle = ThrottleNew(now)])
          /\ pc' = "readdir"
          /\ UNCHANGED <<xfer, outcome, failed>>
       \/ /\ Fail("LocalDirFailed", MkdirMsg(Top.path))
          /\ UNCHANGED local
    /\ UNCHANGED <<EnvVars, session, connections, top_throttle, events, transferred_files, copied,
                   deepest>>

\* ssh_client.rs:730-732
read_dir ==
    /\ pc = "readdir"
    /\ \/ /\ stack' = SetTop([Top EXCEPT !.entries = Top.listing, !.i = 1])
          /\ pc' = "loop"
          /\ UNCHANGED <<xfer, outcome, failed>>
       \/ Fail("ListFailed", ReaddirMsg(Top.path))
    /\ UNCHANGED <<EnvVars, session, connections, top_throttle, events, local, transferred_files,
                   copied, deepest>>

\* ssh_client.rs:734-768 and 792-801: one turn of the for loop up to the
\* point where the entry's I/O starts: the cancellation checkpoint, the
\* hidden-entry filter, and then by kind the throttled progress event of a
\* file, the recursive call for a directory, or nothing
loop_entry ==
    /\ pc = "loop"
    /\ Top.i <= Len(Top.entries)
    /\ IF entry_checkpoint
       THEN /\ Fail("Cancelled", CancelMsg)
            /\ UNCHANGED <<events, deepest>>
       ELSE IF IsSkippedHidden(CurEntry.name)
       THEN /\ stack' = SetTop([Top EXCEPT !.i = @ + 1])
            /\ UNCHANGED <<pc, xfer, outcome, failed, events, deepest>>
       ELSE IF CurEntry.kind = "file"
       THEN /\ events' =
                 IF ShouldUpdateResult(Top.throttle, Top.total_transferred_bytes, now)
                 THEN progress_callback(events, <<Progress("transferring", Top.total_files, None,
                                      Top.total_transferred_bytes,
                                      Some(RenderPath(RemoteRoot, CurPath)),
                                      get_elapsed_seconds(Top.throttle, now))>>)
                 ELSE events
            /\ stack' = SetTop([Top EXCEPT !.throttle =
                 ShouldUpdateState(Top.throttle, Top.total_transferred_bytes, now)])
            /\ pc' = "open"
            /\ UNCHANGED <<xfer, outcome, failed, deepest>>
       ELSE IF CurEntry.kind = "dir"
       THEN /\ stack' = Append(stack, Frame(CurPath, Top.depth + 1, CurEntry.sub))
            /\ deepest' = IF Top.depth + 1 > deepest THEN Top.depth + 1 ELSE deepest
            /\ pc' = "dir_enter"
            /\ UNCHANGED <<xfer, outcome, failed, events>>
       ELSE /\ stack' = SetTop([Top EXCEPT !.i = @ + 1])
            /\ UNCHANGED <<pc, xfer, outcome, failed, events, deepest>>
    /\ UNCHANGED <<EnvVars, session, connections, top_throttle, local, transferred_files, copied>>

\* ssh_client.rs:808 and 801-803: the call returns its total_files, which
\* the caller adds to its own; the outermost call returns to line 432
dir_return ==
    /\ pc = "loop"
    /\ Top.i > Len(Top.entries)
    /\ IF Len(stack) = 1
       THEN /\ transferred_files' = Top.total_files
            /\ stack' = <<>>
            /\ pc' = "final"
       ELSE /\ stack' = [SubSeq(stack, 1, Len(stack) - 1) EXCEPT
                            ![Len(stack) - 1] =
                                [@ EXCEPT !.total_files = add_sub_files(@, Top.total_files),
                                          !.i = @ + 1]]
            /\ UNCHANGED <<pc, transferred_files>>
    /\ UNCHANGED <<EnvVars, session, connections, xfer, top_throttle, events, local, outcome, copied,
                   failed, deepest>>

\* mutant: a file that cannot be opened is skipped and the loop goes on
open_remote_skips_failed_file ==
    /\ pc = "open"
    /\ \/ /\ xfer' = [active |-> TRUE, remaining |-> CurEntry.bytes, total_bytes |-> 0]
          /\ pc' = "create"
          /\ UNCHANGED <<stack, outcome, failed>>
       \/ /\ failed' = "OpenFailed"
          /\ stack' = SetTop([Top EXCEPT !.i = @ + 1])
          /\ pc' = "loop"
          /\ UNCHANGED <<xfer, outcome>>
    /\ UNCHANGED <<EnvVars, session, connections, top_throttle, events, local, transferred_files,
                   copied, deepest>>

\* ssh_client.rs:772-773
open_remote ==
    /\ pc = "open"
    /\ \/ /\ xfer' = [active |-> TRUE, remaining |-> CurEntry.bytes, total_bytes |-> 0]
          /\ pc' = "create"
          /\ UNCHANGED <<stack, outcome, failed>>
       \/ Fail("OpenFailed", OpenMsg(CurPath))
    /\ UNCHANGED <<EnvVars, session, connections, top_throttle, events, local, transferred_files,
                   copied, deepest>>

\* ssh_client.rs:775-776
create_local ==
    /\ pc = "create"
    /\ \/ /\ local' = file_create(CurPath)
          /\ pc' = "copy"
          /\ UNCHANGED <<stack, xfer, outcome, failed>>
       \/ /\ Fail("CreateFailed", CreateMsg(CurPath))
          /\ UNCHANGED local
    /\ UNCHANGED <<EnvVars, session, connections, top_throttle, events, transferred_files, copied,
                   deepest>>

(***************************************************************************)
(* transfer_file_optimized, ssh_client.rs:475-503, one read per step.       *)
(***************************************************************************)
\* the lengths a read may return while bytes remain: up to a full buffer,
\* or a short read
ReadLengths(remaining) ==
    {IF remaining < BUFFER_SIZE THEN remaining ELSE BUFFER_SIZE}
    \cup (IF remaining > 2 THEN {2} ELSE {})

\* ssh_client.rs:490-494: Ok(n), then write_all succeeds or fails
copy_chunk ==
    /\ pc = "copy"
    /\ xfer.remaining > 0
    /\ \E n \in ReadLengths(xfer.remaining) :
          \/ /\ local' = write_all(CurPath, n)
             /\ xfer' = [xfer EXCEPT !.remaining = @ - n, !.total_bytes = @ + n]
             /\ UNCHANGED <<pc, stack, outcome, failed>>
          \/ /\ Fail("CopyFailed", CopyMsg(CurPath))
             /\ UNCHANGED local
    /\ UNCHANGED <<overdue, first_run, unit, remote, cancel_flag, sig, now, interrupts, session, connections, top_throttle,
                   events, transferred_files, copied, deepest, twin, FileVars>>

\* mutant: an interrupted read ends the copy as the read of length 0 does
copy_interrupted_ends_copy ==
    /\ pc = "copy"
    /\ interrupts < MaxInterrupts
    /\ interrupts' = interrupts + 1
    /\ stack' = SetTop([Top EXCEPT
                           !.total_transferred_bytes = @ + xfer.total_bytes,
                           !.total_files = @ + 1,
                           !.i = @ + 1])
    /\ copied' = Append(copied, [path |-> CurPath, bytes |-> xfer.total_bytes])
    /\ xfer' = NoXfer
    /\ pc' = "loop"
    /\ UNCHANGED <<overdue, first_run, unit, remote, cancel_flag, sig, now, session,
                   connections, top_throttle, events, local, outcome, transferred_files,
                   failed, deepest, twin, FileVars>>

\* ssh_client.rs:495-497: an interrupted read is retried
copy_interrupted ==
    /\ pc = "copy"
    /\ interrupts < MaxInterrupts
    /\ interrupts' = interrupts + 1
    /\ UNCHANGED <<overdue, first_run, unit, remote, cancel_flag, sig, now, session, connections, pc, stack, xfer, top_throttle,
                   events, local, outcome, transferred_files, copied, failed, deepest, twin, FileVars>>

\* ssh_client.rs:498: any other read error
copy_read_error ==
    /\ pc = "copy"
    /\ Fail("CopyFailed", CopyMsg(CurPath))
    /\ UNCHANGED <<EnvVars, session, connections, top_throttle, events, local, transferred_files,
                   copied, deepest>>

\* mutant: the read of length 0 is retried like an interrupted one
copy_eof_retried ==
    /\ pc = "copy"
    /\ xfer.remaining = 0
    /\ UNCHANGED vars

\* ssh_client.rs:489 and 502, then 785-790: the read of length 0 ends the
\* copy, and the call adds the file to its counters
copy_eof ==
    /\ pc = "copy"
    /\ xfer.remaining = 0
    /\ stack' = SetTop([Top EXCEPT
                           !.total_transferred_bytes = @ + xfer.total_bytes,
                           !.total_files = @ + 1,
                           !.i = @ + 1])
    /\ copied' = Append(copied, [path |-> CurPath, bytes |-> xfer.total_bytes])
    /\ xfer' = NoXfer
    /\ pc' = "loop"
    /\ UNCHANGED <<EnvVars, session, connections, top_throttle, events, local, outcome,
                   transferred_files, failed, deepest>>

\* the wall clock advances while a transfer is in flight
tick ==
    /\ pc = "copy"
    /\ now < MaxClock
    /\ now' = now + 1
    /\ UNCHANGED <<overdue, first_run, unit, remote, cancel_flag, sig, interrupts, session, connections, pc, stack, xfer,
                   top_throttle, events, local, outcome, transferred_files, copied,
                   failed, deepest, twin, FileVars>>

(***************************************************************************)
(* The end of backup_folder_with_cancel_and_progress, ssh_client.rs:434-464.*)
(***************************************************************************)
\* mutant: the engine clears the flag once it has seen it set
final_check_resets_flag ==
    /\ pc = "final"
    /\ IF final_checkpoint
       THEN /\ events' = progress_callback(events, <<Progress("cancelled", transferred_files, None, 0, None,
                            get_elapsed_seconds(top_throttle, now))>>)
            /\ Fail("Cancelled", CancelMsg)
            /\ cancel_flag' = FALSE
       ELSE /\ pc' = "complete"
            /\ UNCHANGED <<events, stack, xfer, outcome, failed, cancel_flag>>
    /\ UNCHANGED <<remote, sig, now, interrupts, overdue, first_run, unit, session,
                   connections, top_throttle, local, transferred_files, copied, deepest, twin, FileVars>>

\* ssh_client.rs:434-445: the last cancellation checkpoint
final_check ==
    /\ pc = "final"
    /\ IF final_checkpoint
       THEN /\ events' = progress_callback(events, <<Progress("cancelled", transferred_files, None, 0, None,
                            get_elapsed_seconds(top_throttle, now))>>)
            /\ Fail("Cancelled", CancelMsg)
       ELSE /\ pc' = "complete"
            /\ UNCHANGED <<events, stack, xfer, outcome, failed>>
    /\ UNCHANGED <<EnvVars, session, connections, top_throttle, local, transferred_files, copied,
                   deepest>>

\* mutant: the summary is returned without the final snapshot
complete_silent ==
    /\ pc = "complete"
    /\ outcome' = [kind |-> "Ok", cause |-> "none",
                   msg |-> <<"<check-emoji backup kanryou!>">>,
                   files |-> transferred_files]
    /\ pc' = "done"
    /\ UNCHANGED <<EnvVars, session, connections, stack, xfer, top_throttle, local,
                   transferred_files, copied, failed, deepest, events>>

\* ssh_client.rs:447-458 and 463: the final snapshot and the summary
complete ==
    /\ pc = "complete"
    /\ events' = progress_callback(events, <<Progress("complete", transferred_files, Some(transferred_files), 0, None,
                     get_elapsed_seconds(top_throttle, now))>>)
    /\ outcome' = [kind |-> "Ok", cause |-> "none",
                   msg |-> <<"<check-emoji backup kanryou!>">>,
                   files |-> transferred_files]
    /\ pc' = "done"
    /\ UNCHANGED <<EnvVars, session, connections, stack, xfer, top_throttle, local,
                   transferred_files, copied, failed, deepest>>

Next ==
    \/ backup_xserver_folder
    \/ cancel_backup
    \/ second_backup_resets_flag
    \/ backup_folder_with_progress
    \/ test_connection
    \/ open_sftp
    \/ create_local_root
    \/ stat_remote_root
    \/ dir_enter
    \/ dir_create
    \/ read_dir
    \/ loop_entry
    \/ dir_return
    \/ open_remote
    \/ create_local
    \/ copy_chunk
    \/ copy_interrupted
    \/ copy_read_error
    \/ copy_eof
    \/ tick
    \/ final_check
    \/ complete

Spec == Init /\ [][Next]_vars

TypeOK ==
    /\ cancel_flag \in BOOLEAN
    /\ session \in {"None", "Some"}
    /\ now \in 0..MaxClock
    /\ pc \in {"idle", "called", "connect", "sftp", "mkroot", "stat", "dir_enter",
               "mkdir", "readdir", "loop", "open", "create", "copy", "final",
               "complete", "done", "unit"}

(***************************************************************************)
(* The run under fairness.  The task that runs the engine is scheduled      *)
(* until the engine returns, every call the engine makes returns, and a     *)
(* read does not report ErrorKind::Interrupted for ever: a step of the      *)
(* engine other than the retry of an interrupted read is eventually taken.  *)
(* A read that fails is a step the remote side may take, none that the      *)
(* fairness demands: where it can happen, the read of data or of the end of *)
(* the stream can happen too.                                               *)
(***************************************************************************)
EngineStep ==
    \/ backup_folder_with_progress
    \/ test_connection
    \/ open_sftp
    \/ create_local_root
    \/ stat_remote_root
    \/ dir_create
    \/ read_dir
    \/ loop_entry
    \/ dir_return
    \/ open_remote
    \/ create_local
    \/ copy_chunk
    \/ copy_eof
    \/ final_check
    \/ complete

\* the remote trees of the fair runs: one entry under the root (with all
\* that the entry holds), the chains of 50 and 51 directories, and the
\* directory that is followed by a file of its parent
FairRemoteStates ==
    { r \in RemoteStates :
        \/ r.kind # "dir"
        \/ Len(r.list) <= 1
        \/ r.list \in NestedTrees }

FairInit == Init /\ remote \in FairRemoteStates

\* weak fairness of dir_enter, with ENABLED <<dir_enter>>_vars written as
\* what it is: every branch of dir_enter leaves pc = "dir_enter"
dir_enter_is_fair == []<>(pc # "dir_enter") \/ []<><<dir_enter>>_vars

FairSpec == FairInit /\ [][Next]_vars /\ WF_vars(EngineStep) /\ dir_enter_is_fair

(***************************************************************************)
(* calculate_file_timeout, ssh_client.rs:515-528.  A u64 is written as the  *)
(* pair of its GiB count and the bytes that remain, its value being         *)
(* hi * 2^30 + lo, so that sizes of several GiB can be written.             *)
(***************************************************************************)
MB == 1024 * 1024
GB == 1024 * MB

\* the u64 with value n, for n a number of bytes the model can write
U64(n) == [hi |-> n \div GB, lo |-> n % GB]
\* the u64 with value g GiB + n bytes, n < GB
GiBPlus(g, n) == [hi |-> g, lo |-> n]
\* a < b on u64
U64Less(a, b) == a.hi < b.hi \/ (a.hi = b.hi /\ a.lo < b.lo)

\* mutant: the boundaries belong to the smaller class
calculate_file_timeout_inclusive(file_size) ==
    IF ~U64Less(U64(10 * MB), file_size) THEN 60
    ELSE IF ~U64Less(U64(100 * MB), file_size) THEN 120
    ELSE IF ~U64Less(U64(GB), file_size) THEN 600
    ELSE 1800

\* the seconds of the Duration returned
calculate_file_timeout(file_size) ==
    IF U64Less(file_size, U64(10 * MB)) THEN 60
    ELSE IF U64Less(file_size, U64(100 * MB)) THEN 120
    ELSE IF U64Less(file_size, U64(GB)) THEN 600
    ELSE 1800

\* stat.size.unwrap_or(0), ssh_client.rs:765
unwrap_or_0(size) == IF size.some THEN size.v ELSE U64(0)

\* ssh_client.rs:765-768: the deadline of the transfer of a file
file_timeout(size) == calculate_file_timeout(unwrap_or_0(size))

(***************************************************************************)
(* Calls of the pure functions on their own.  unit holds the arguments of   *)
(* one call and, once called, its result.                                   *)
(***************************************************************************)
\* the last clock reading of a throttle on its own
MaxUnitClock == 7

\* the byte counts a throttle on its own is called with
ByteSamples ==
    {0, 1, BYTE_THRESHOLD - 1, BYTE_THRESHOLD, BYTE_THRESHOLD + 1, 2 * BYTE_THRESHOLD}

\* a throttle just constructed; t is the clock and at its reading at the
\* last call; since and mark are the time and the byte
\* count of the last call that returned true (or of the construction), kept
\* beside the throttle, and since0 and mark0 their values before the call
ThrottleCalls ==
    { [fn |-> "should_update", called |-> FALSE, th |-> ThrottleNew(t0), t |-> t0,
       at |-> t0, bytes |-> 0, result |-> FALSE, before |-> ThrottleNew(t0),
       since |-> t0, mark |-> 0, since0 |-> t0, mark0 |-> 0] : t0 \in 0..1 }

\* the file sizes calculate_file_timeout is called with; None is a file
\* whose stat carries no size
SizeSamples ==
    {None}
    \cup {Some(U64(n)) : n \in {0, 1, 9 * MB, 10 * MB - 1, 10 * MB, 10 * MB + 1,
                                99 * MB, 100 * MB - 1, 100 * MB, 100 * MB + 1,
                                999 * MB, GB - 1}}
    \cup {Some(GiBPlus(g, n)) : g \in {1, 5}, n \in {0, 1}}

TimeoutCalls ==
    { [fn |-> "calculate_file_timeout", called |-> FALSE, size |-> sz, result |-> 0] :
          sz \in SizeSamples }

\* the keywords of classify_error, and the same in capitals
Keywords ==
    {KwAuthentication, KwPublickey, KwPassphrase, KwPermissionDeniedPublickey,
     KwConnection, KwTimeout, KwDns, KwNetwork, KwHost, KwPermissionDenied,
     KwAccessDenied, KwForbidden, KwNoSpace, KwDiskFull, KwQuota, KwTimedOut,
     KwNoSuchFile, KwNotFound, KwInvalidPath}
UpperChar(c) ==
    IF \E i \in 1..26 : LowerCase[i] = c
    THEN UpperCase[CHOOSE i \in 1..26 : LowerCase[i] = c]
    ELSE c
Capitals(s) == [i \in 1..Len(s) |-> UpperChar(s[i])]
\* only the first letter in capitals
Capitalized(s) == [i \in 1..Len(s) |-> IF i = 1 THEN UpperChar(s[i]) ELSE s[i]]

\* the messages classify_error is called with: Japanese text alone, or
\* around one keyword or two, in small letters or in capitals
ErrorSamples ==
    LET words == Keywords \cup {Capitals(k) : k \in Keywords}
                 \cup {Capitalized(KwTimeout), Capitalized(KwAuthentication)}
        jp    == <<"<nihongo no bun>">>
    IN  {jp}
        \cup {jp \o w \o jp : w \in words}
        \cup {w1 \o <<" ">> \o jp \o w2 : w1 \in words, w2 \in words}

\* classify_error about to be called; again is what a second classify_error
\* makes of the text the first one returned (ssh_client.rs:206, then 464)
ClassifyCalls ==
    { [fn |-> "classify_error", called |-> FALSE, error |-> e, result |-> <<>>,
       twice |-> FALSE, again |-> <<>>] :
          e \in ErrorSamples \cup {f.msg : f \in EstablishFailures} }

\* the bytes the buffer of a copy on its own holds, in place of BUFFER_SIZE
CopyBuffer == 2

\* the contents of the remote files a copy on its own reads
CopySources == {<<>>, <<7>>, <<7, 8, 9>>}

\* transfer_file_optimized about to enter its loop, ssh_client.rs:485-486:
\* src is what the remote handle yields and pos how much of it was read,
\* written is what the local handle has received; chunks (the data the reads
\* returned, in order) and last (the result of the last read) are history
CopyCalls ==
    { [fn |-> "transfer_file_optimized", called |-> FALSE, src |-> src, pos |-> 0,
       buffer |-> [i \in 1..CopyBuffer |-> 0], written |-> <<>>, total_bytes |-> 0,
       chunks |-> <<>>, last |-> "none", intr |-> 0, result |-> None] :
          src \in CopySources }

\* remote_file.read(&mut buffer) returning Ok(n): the first n bytes of the
\* buffer are replaced, the others keep what an earlier read left
read_into(buffer, src, pos, n) ==
    [i \in 1..Len(buffer) |-> IF i <= n THEN src[pos + i] ELSE buffer[i]]

\* mutant: the whole buffer is written, not the part the read filled
buffer_up_to_end(buffer, n) == buffer

\* &buffer[..n], ssh_client.rs:491
buffer_up_to(buffer, n) == SubSeq(buffer, 1, n)

\* PathBuf::join of a directory and the name of one of its entries
entry_path(dir, name) == dir \o <<47>> \o name

\* what a listed directory holds: position i of the listing has the letter i
\* in its name, which is plain ("a"), dotted ("a.c"), hidden (".a") or dotted
\* and not UTF-8 ("a." and the byte FF); an entry is a directory or a file,
\* and the stat of a directory's public_html succeeds, finds nothing, or
\* fails although public_html is there.  The entries come in either order.
HomeListings ==
    LET names(i) == {<<96 + i>>, <<96 + i, Dot, 99>>, <<Dot, 96 + i>>, <<96 + i, Dot, 255>>}
        entries(i) ==
            {[name |-> n, kind |-> "dir", public_html |-> ph] :
                 n \in names(i), ph \in {"present", "absent", "unreadable"}}
            \cup {[name |-> n, kind |-> "file", public_html |-> "absent"] : n \in names(i)}
    IN  {<<>>} \cup {<<e>> : e \in entries(1)}
        \cup {<<e1, e2>> : e1 \in entries(1), e2 \in entries(2)}
        \cup {<<e2, e1>> : e1 \in entries(1), e2 \in entries(2)}

\* a listing operation about to be called on a client just built; dir is
\* the path it lists ("/home/u" with u the user name) and home what the
\* server holds there; fault is the call that failed, once it is known
ListingCalls ==
    { [fn |-> f, called |-> FALSE, dir |-> <<47, 104, 111, 109, 101, 47, 117>>,
       home |-> h, fault |-> "none", result |-> None] :
          f \in {"list_remote_directories", "find_domains"}, h \in HomeListings }

\* Ord of two strings, byte by byte
RECURSIVE LexLess(_, _)
LexLess(a, b) ==
    IF a = <<>> THEN b # <<>>
    ELSE IF b = <<>> THEN FALSE
    ELSE IF a[1] # b[1] THEN a[1] < b[1]
    ELSE LexLess(Tail(a), Tail(b))

\* Vec<String>::sort
RECURSIVE sort(_)
sort(v) ==
    IF v = <<>> THEN <<>>
    ELSE LET m == CHOOSE i \in 1..Len(v) : \A j \in 1..Len(v) : ~LexLess(v[j], v[i])
         IN  <<v[m]>> \o sort(SubSeq(v, 1, m - 1) \o SubSeq(v, m + 1, Len(v)))

\* ssh_client.rs:240-248: the paths of the entries that are directories and
\* whose path is UTF-8 text, in the order of the listing
RECURSIVE directories_of(_, _)
directories_of(dir, entries) ==
    IF entries = <<>> THEN <<>>
    ELSE LET e == Head(entries)
             p == entry_path(dir, e.name)
         IN  (IF e.kind = "dir" /\ to_str(p).some THEN <<p>> ELSE <<>>)
             \o directories_of(dir, Tail(entries))

\* ssh_client.rs:282-300: for a directory whose name is UTF-8 text that
\* contains '.' and does not start with it, the path of its public_html if
\* the stat of that succeeds, and its own path otherwise
RECURSIVE domains_of(_, _)
domains_of(dir, entries) ==
    IF entries = <<>> THEN <<>>
    ELSE LET e == Head(entries)
             name_str == to_str(e.name)
         IN  (IF /\ e.kind = "dir"
                 /\ name_str.some
                 /\ \E i \in 1..Len(name_str.text) : name_str.text[i] = Dot
                 /\ ~starts_with_dot(name_str.text)
              THEN IF e.public_html = "present"
                   THEN <<entry_path(entry_path(dir, e.name),
                                     <<112, 117, 98, 108, 105, 99, 95, 104, 116, 109, 108>>)>>
                   ELSE <<entry_path(dir, e.name)>>
              ELSE <<>>)
             \o domains_of(dir, Tail(entries))

Ok(v) == Some([ok |-> TRUE, v |-> v])
Err == Some([ok |-> FALSE, v |-> <<>>])

\* mutant: a directory that cannot be read is an error for the listing too
list_readdir_failed_is_error == Err

\* ssh_client.rs:251-254: the listing of a directory that cannot be read
list_readdir_failed == Ok(<<>>)

\* {:o} of a number
RECURSIVE octal(_)
octal(n) ==
    LET digit(d) == <<"0", "1", "2", "3", "4", "5", "6", "7">>[d + 1]
    IN  IF n < 8 THEN <<digit(n)>> ELSE octal(n \div 8) \o <<digit(n % 8)>>

\* mutant: only the bits of "other" make a key file unsafe
unsafe_mode_other_only(mode) == mode % 8 # 0

\* mode & 0o077 != 0, ssh_client.rs:126
unsafe_mode(mode) == mode % 64 # 0

\* test_connection about to be called on a client just built or on one that
\* holds the session of an earlier call (held; holds is the session field
\* after the call).  key is the
\* private-key file: whether it exists and, if so, its st_mode (a regular
\* file with the permission bits 600, 400, 640, 604, 644, 066 or 777);
\* stop is the first call of connection_future that the environment lets
\* fail, "none" if it lets none fail; cause and auth_attempted (whether
\* userauth_pubkey_file was called) are history
ConnectCalls ==
    LET modes == {32768 + 384, 32768 + 256, 32768 + 416, 32768 + 388, 32768 + 420,
                  32768 + 54, 32768 + 511}
        keys  == {[exists |-> FALSE, mode |-> 0]} \cup {[exists |-> TRUE, mode |-> md] : md \in modes}
        stops == {"none", "tcp", "session_new", "handshake", "metadata", "auth_methods",
                  "read_to_string", "userauth_pubkey_file", "authenticated",
                  "channel_session", "exec", "read_result", "wait_close"}
    IN  { [fn |-> "test_connection", called |-> FALSE, key |-> k, stop |-> st,
           held |-> h, holds |-> h,
           cause |-> "none", auth_attempted |-> FALSE, result |-> None] :
              k \in keys, st \in stops, h \in {None, Some("earlier")} }

\* connection_future, ssh_client.rs:102-201, for a key file and the first
\* call that fails: the error it returns, or "none", and whether it came as
\* far as userauth_pubkey_file (line 157)
connection_future(key, stop) ==
    LET jp(t) == <<t>>
        failure(cause, msg, auth) == [cause |-> cause, msg |-> msg, auth_attempted |-> auth]
    IN  IF stop = "tcp"
        THEN failure("TcpConnectFailed", <<"T", "C", "P">> \o jp("<setsuzoku ni shippai shimashita>"), FALSE)
        ELSE IF stop = "session_new"
        THEN failure("SessionNewFailed", <<"S", "S", "H">> \o jp("<session no sakusei ni shippai shimashita>"), FALSE)
        ELSE IF stop = "handshake"
        THEN failure("HandshakeFailed", <<"S", "S", "H">> \o jp("<handshake ni shippai shimashita>"), FALSE)
        ELSE IF ~key.exists
        THEN failure("KeyFileMissing", jp("<himitsukagi file ga mitsukarimasen: >") \o <<"/", "k">>, FALSE)
        ELSE IF stop = "metadata"
        THEN failure("MetadataFailed", jp("<himitsukagi file no metadata shutoku ni shippai shimashita>"), FALSE)
        ELSE IF unsafe_mode(key.mode)
        THEN failure("UnsafeKeyMode",
                     jp("<himitsukagi file no kengen ga anzen de arimasen (genzai: >")
                     \o octal(key.mode % 512)
                     \o jp("<). >") \o <<"c", "h", "m", "o", "d", " ", "6", "0", "0", " ", "/", "k">>
                     \o jp("< wo jikkou shite kudasai.>"), FALSE)
        ELSE IF stop = "auth_methods"
        THEN failure("AuthMethodsFailed", jp("<ninshou houhou no shutoku ni shippai shimashita>"), FALSE)
        ELSE IF stop = "read_to_string"
        THEN failure("KeyFileUnreadable", jp("<himitsukagi file no yomitori ni shippai shimashita>"), FALSE)
        ELSE IF stop = "userauth_pubkey_file"
        THEN failure("PublicKeyAuthFailed",
                     <<"S", "S", "H">> \o jp("<koukaikagi ninshou ni shippai shimashita ...>")
                     \o <<"s", "s", "h", "-", "k", "e", "y", "g", "e", "n", " ", "-", "p", " ",
                          "-", "m", " ", "P", "E", "M", " ", "-", "f", " ", "/", "k">>, TRUE)
        ELSE IF stop = "authenticated"
        THEN failure("NotAuthenticated", <<"S", "S", "H">> \o jp("<ninshou ni shippai shimashita>"), TRUE)
        ELSE IF stop = "channel_session"
        THEN failure("ChannelFailed", <<"S", "S", "H">> \o jp("<channel no sakusei ni shippai shimashita>"), TRUE)
        ELSE IF stop = "exec"
        THEN failure("ExecFailed", <<"S", "S", "H">> \o jp("<command no jikkou ni shippai shimashita>"), TRUE)
        ELSE IF stop = "read_result"
        THEN failure("ReadResultFailed", <<"S", "S", "H">> \o jp("<command no kekka yomitori ni shippai shimashita>"), TRUE)
        ELSE IF stop = "wait_close"
        THEN failure("CloseFailed", <<"S", "S", "H">> \o jp("<channel no close ni shippai shimashita>"), TRUE)
        ELSE failure("none", <<>>, TRUE)

\* the engine is not running while a function is called on its own
UnitInit ==
    /\ remote = [kind |-> "missing", list |-> <<>>]
    /\ cancel_flag = FALSE
    /\ pc = "unit"
    /\ stack = <<>>
    /\ xfer = NoXfer
    /\ now = 0
    /\ top_throttle = ThrottleNew(0)
    /\ events = <<>>
    /\ local = {}
    /\ outcome = NoOutcome
    /\ transferred_files = 0
    /\ copied = <<>>
    /\ sig = NoSig
    /\ failed = "none"
    /\ deepest = 0
    /\ interrupts = 0
    /\ connections = 0
    /\ overdue = "none"
    /\ first_run = NoRun
    /\ twin = NoTwin
    /\ NoFiles
    /\ \/ unit \in ThrottleCalls
       \/ unit \in TimeoutCalls
       \/ unit \in ClassifyCalls
       \/ unit \in CopyCalls
       \/ unit \in ListingCalls
       \/ unit \in ConnectCalls
    /\ session = IF unit.fn = "test_connection" /\ unit.held.some THEN "Some" ELSE "None"

EngineVars ==
    <<remote, cancel_flag, session, pc, stack, xfer, now, top_throttle, events, local,
      outcome, transferred_files, copied, sig, failed, deepest, interrupts,
      connections, overdue, first_run, twin, FileVars>>

\* time passes between two calls of should_update
unit_tick ==
    /\ unit.fn = "should_update"
    /\ unit.t < MaxUnitClock
    /\ unit' = [unit EXCEPT !.t = @ + 1]
    /\ UNCHANGED EngineVars

\* ProgressThrottle::should_update(transferred_bytes), ssh_client.rs:52-64
unit_should_update ==
    /\ unit.fn = "should_update"
    /\ \E b \in ByteSamples :
          LET r == ShouldUpdateResult(unit.th, b, unit.t) IN
          unit' = [unit EXCEPT !.called = TRUE, !.at = unit.t, !.bytes = b, !.result = r,
                               !.before = unit.th,
                               !.th = ShouldUpdateState(unit.th, b, unit.t),
                               !.since0 = unit.since, !.mark0 = unit.mark,
                               !.since = IF r THEN unit.t ELSE @,
                               !.mark = IF r THEN b ELSE @]
    /\ UNCHANGED EngineVars

\* SshClient::calculate_file_timeout on the size of a stat
unit_calculate_file_timeout ==
    /\ unit.fn = "calculate_file_timeout"
    /\ ~unit.called
    /\ unit' = [unit EXCEPT !.called = TRUE, !.result = file_timeout(unit.size)]
    /\ UNCHANGED EngineVars

\* SshClient::classify_error
unit_classify_error ==
    /\ unit.fn = "classify_error"
    /\ ~unit.called
    /\ unit' = [unit EXCEPT !.called = TRUE, !.result = classify_error(unit.error)]
    /\ UNCHANGED EngineVars

\* the text classify_error returned is classified once more: the error of
\* test_connection (ssh_client.rs:206) reaches the match of 462-464
unit_classify_again ==
    /\ unit.fn = "classify_error"
    /\ unit.called /\ ~unit.twice
    /\ unit' = [unit EXCEPT !.twice = TRUE, !.again = classify_error(unit.result)]
    /\ UNCHANGED EngineVars

\* SshClient::transfer_file_optimized, ssh_client.rs:487-502: one turn of
\* the loop, by the result of the read.  A write_all that fails may have
\* written a part of the chunk.
unit_transfer_file_optimized ==
    /\ unit.fn = "transfer_file_optimized"
    /\ ~unit.called
    /\ LET remaining == Len(unit.src) - unit.pos IN
       \/ /\ remaining = 0
          /\ unit' = [unit EXCEPT !.last = "eof", !.called = TRUE,
                                  !.result = Ok(unit.total_bytes)]
       \/ \E n \in 1..(IF remaining < CopyBuffer THEN remaining ELSE CopyBuffer) :
             LET filled == read_into(unit.buffer, unit.src, unit.pos, n)
                 chunk  == SubSeq(unit.src, unit.pos + 1, unit.pos + n)
             IN  \/ unit' = [unit EXCEPT !.last = "data", !.buffer = filled,
                                         !.pos = @ + n, !.chunks = @ \o chunk,
                                         !.written = @ \o buffer_up_to(filled, n),
                                         !.total_bytes = @ + n]
                 \/ \E k \in 0..(n - 1) :
                       unit' = [unit EXCEPT !.last = "write_error", !.buffer = filled,
                                            !.pos = @ + n, !.chunks = @ \o chunk,
                                            !.written = @ \o SubSeq(filled, 1, k),
                                            !.called = TRUE,
                                            !.result = Err]
       \/ /\ unit.intr < MaxInterrupts
          /\ unit' = [unit EXCEPT !.last = "interrupted", !.intr = @ + 1]
       \/ unit' = [unit EXCEPT !.last = "read_error", !.called = TRUE,
                               !.result = Err]
    /\ UNCHANGED EngineVars

\* a listing operation on a client that holds no session, up to its sftp
\* channel: the session is established (ssh_client.rs:219-221, 269-271) and
\* the channel opened (227-228, 277-278); either may fail, which ends the
\* operation with an error
ListingFails ==
    \/ /\ \E f \in EstablishFailures :
             connections' = IF f.cause = "TcpConnectFailed" THEN connections
                            ELSE connections + 1
       /\ unit' = [unit EXCEPT !.called = TRUE, !.fault = "establish", !.result = Err]
       /\ UNCHANGED session
    \/ /\ session' = "Some"
       /\ connections' = connections + 1
       /\ unit' = [unit EXCEPT !.called = TRUE, !.fault = "sftp", !.result = Err]

\* SshClient::list_remote_directories on a client just built,
\* ssh_client.rs:216-263
unit_list_remote_directories ==
    /\ unit.fn = "list_remote_directories"
    /\ ~unit.called
    /\ \/ ListingFails
       \/ /\ session' = "Some"
          /\ connections' = connections + 1
          /\ \/ unit' = [unit EXCEPT !.called = TRUE, !.fault = "readdir",
                                     !.result = list_readdir_failed]
             \/ unit' = [unit EXCEPT !.called = TRUE,
                                     !.result = Ok(sort(directories_of(unit.dir, unit.home)))]
    /\ UNCHANGED <<remote, cancel_flag, pc, stack, xfer, now, top_throttle, events, local,
                   outcome, transferred_files, copied, sig, failed, deepest, interrupts,
                   overdue, first_run, twin, FileVars>>

\* SshClient::find_domains on a client just built, ssh_client.rs:266-320
unit_find_domains ==
    /\ unit.fn = "find_domains"
    /\ ~unit.called
    /\ \/ ListingFails
       \/ /\ session' = "Some"
          /\ connections' = connections + 1
          /\ \/ unit' = [unit EXCEPT !.called = TRUE, !.fault = "readdir", !.result = Err]
             \/ unit' = [unit EXCEPT !.called = TRUE,
                                     !.result = Ok(sort(domains_of(unit.dir, unit.home)))]
    /\ UNCHANGED <<remote, cancel_flag, pc, stack, xfer, now, top_throttle, events, local,
                   outcome, transferred_files, copied, sig, failed, deepest, interrupts,
                   overdue, first_run, twin, FileVars>>

\* mutant: the session is stored as soon as the authentication was tried
session_after_auth(held, r) == IF r.auth_attempted THEN Some("this") ELSE held

\* ssh_client.rs:193, the last statement of connection_future before its Ok:
\* the session field after the call
session_after(held, r) == IF r.cause = "none" THEN Some("this") ELSE held

\* SshClient::test_connection, ssh_client.rs:101-213:
\* the session is stored when connection_future succeeds (193), and its
\* error is returned under the template of classify_error (206)
unit_test_connection ==
    /\ unit.fn = "test_connection"
    /\ ~unit.called
    /\ LET r == connection_future(unit.key, unit.stop) IN
       /\ unit' = [unit EXCEPT !.called = TRUE, !.cause = r.cause,
                               !.auth_attempted = r.auth_attempted,
                               !.holds = session_after(unit.held, r),
                               !.result = IF r.cause = "none"
                                          THEN Ok(<<"<check-emoji SSH setsuzoku test seikou!>">>)
                                          ELSE Some([ok |-> FALSE, v |-> classify_error(r.msg)])]
       /\ session' = IF session_after(unit.held, r).some THEN "Some" ELSE "None"
       /\ connections' = IF r.cause = "TcpConnectFailed" THEN connections
                         ELSE connections + 1
    /\ UNCHANGED <<remote, cancel_flag, pc, stack, xfer, now, top_throttle, events, local,
                   outcome, transferred_files, copied, sig, failed, deepest, interrupts,
                   overdue, first_run, twin, FileVars>>

UnitNext ==
    \/ unit_test_connection
    \/ unit_list_remote_directories
    \/ unit_find_domains
    \/ unit_transfer_file_optimized
    \/ unit_tick
    \/ unit_should_update
    \/ unit_calculate_file_timeout
    \/ unit_classify_error
    \/ unit_classify_again

UnitSpec == UnitInit /\ [][UnitNext]_vars

(***************************************************************************)
(* One SshClient used for several operations, and the deadlines of its      *)
(* futures.  Every tokio timeout of the engine (ssh_client.rs:204, 261,     *)
(* 318, 462, 786) wraps a future that holds no await point on which it can  *)
(* be suspended: the blocking ssh2 and std::fs calls run to the end in the  *)
(* first poll, and Timeout polls its future before its timer.  A deadline   *)
(* that passes while the future runs therefore changes nothing; overdue     *)
(* records that it passed.                                                  *)
(***************************************************************************)
\* total number of entries of a remote tree the client is run on
MaxClientNodes == 2
\* number of connections one client may open
MaxConnections == 2

\* every name of the listing and below it is a plain one
RECURSIVE AllPlain(_)
AllPlain(list) ==
    \A i \in 1..Len(list) : list[i].name = PlainName(i) /\ AllPlain(list[i].sub)

\* the hidden-entry filter plays no part in what the client is checked for
ClientTrees == {t \in UNION {Forest(n) : n \in 0..MaxClientNodes} : AllPlain(t)}

ClientInit ==
    /\ remote \in {[kind |-> "dir", list |-> t] : t \in ClientTrees}
    /\ cancel_flag = FALSE
    /\ session = "None"
    /\ pc = "idle"
    /\ stack = <<>>
    /\ xfer = NoXfer
    /\ now = 0
    /\ top_throttle = ThrottleNew(0)
    /\ events = <<>>
    /\ local = {}
    /\ outcome = NoOutcome
    /\ transferred_files = 0
    /\ copied = <<>>
    /\ sig = NoSig
    /\ failed = "none"
    /\ deepest = 0
    /\ interrupts = 0
    /\ connections = 0
    /\ overdue = "none"
    /\ first_run = NoRun
    /\ unit = NoCall
    /\ twin = NoTwin
    /\ NoFiles

\* the 30 seconds of ssh_client.rs:204 pass while connection_future runs
establish_deadline_passes ==
    /\ pc = "connect"
    /\ overdue = "none"
    /\ overdue' = "establish"
    /\ UNCHANGED <<remote, cancel_flag, session, pc, stack, xfer, now, top_throttle,
                   events, local, outcome, transferred_files, copied, sig, failed,
                   deepest, interrupts, connections, first_run, unit, twin, FileVars>>

\* the file_timeout of ssh_client.rs:768 passes while file_transfer runs
file_deadline_passes ==
    /\ pc \in {"open", "create", "copy"}
    /\ overdue = "none"
    /\ overdue' = "file"
    /\ UNCHANGED <<remote, cancel_flag, session, pc, stack, xfer, now, top_throttle,
                   events, local, outcome, transferred_files, copied, sig, failed,
                   deepest, interrupts, connections, first_run, unit, twin, FileVars>>

\* the client is at rest, before its first backup or after a successful one
AtRest == pc = "idle" \/ (pc = "done" /\ outcome.kind = "Ok")

\* ssh_client.rs:219-221 and 269-271: the session is established when the
\* client holds none; the operation fails when that fails
EnsureSession ==
    IF session = "None"
    THEN /\ connections < MaxConnections
         /\ \/ /\ session' = "Some"
               /\ connections' = connections + 1
            \/ /\ UNCHANGED session
               /\ \E f \in EstablishFailures :
                     connections' = IF f.cause = "TcpConnectFailed" THEN connections
                                    ELSE connections + 1
    ELSE UNCHANGED <<session, connections>>

\* SshClient::list_remote_directories, ssh_client.rs:216-263; the listing it
\* returns is not part of the state
list_remote_directories ==
    /\ AtRest
    /\ EnsureSession
    /\ UNCHANGED <<remote, cancel_flag, pc, stack, xfer, now, top_throttle, events,
                   local, outcome, transferred_files, copied, sig, failed, deepest,
                   interrupts, overdue, first_run, unit, twin, FileVars>>

\* SshClient::find_domains, ssh_client.rs:266-320; the paths it returns are
\* not part of the state
find_domains ==
    /\ AtRest
    /\ EnsureSession
    /\ UNCHANGED <<remote, cancel_flag, pc, stack, xfer, now, top_throttle, events,
                   local, outcome, transferred_files, copied, sig, failed, deepest,
                   interrupts, overdue, first_run, unit, twin, FileVars>>

\* SshClient::test_connection called on its own, ssh_client.rs:101-213: it
\* connects whether or not the client holds a session, and stores the new
\* session in place of the old one (line 193)
client_test_connection ==
    /\ pc = "idle"
    /\ connections < MaxConnections
    /\ \/ /\ session' = "Some"
          /\ connections' = connections + 1
       \/ /\ UNCHANGED session
          /\ \E f \in EstablishFailures :
                connections' = IF f.cause = "TcpConnectFailed" THEN connections
                               ELSE connections + 1
    /\ UNCHANGED <<remote, cancel_flag, pc, stack, xfer, now, top_throttle, events,
                   local, outcome, transferred_files, copied, sig, failed, deepest,
                   interrupts, overdue, first_run, unit, twin, FileVars>>

\* what a successful run leaves behind for the run that follows it
RunLeft ==
    IF pc = "done" /\ outcome.kind = "Ok"
    THEN [done |-> TRUE, local |-> local, files |-> outcome.files]
    ELSE first_run

\* a new invocation starts: nothing is left of the previous one but the
\* local disk; the clock is read from the start of the invocation
StartRun ==
    /\ pc' = "called"
    /\ stack' = <<>>
    /\ xfer' = NoXfer
    /\ events' = <<>>
    /\ outcome' = NoOutcome
    /\ transferred_files' = 0
    /\ copied' = <<>>
    /\ sig' = NoSig
    /\ failed' = "none"
    /\ deepest' = 0
    /\ overdue' = "none"
    /\ first_run' = RunLeft
    /\ now' = 0
    /\ top_throttle' = ThrottleNew(0)
    /\ interrupts' = 0
    /\ UNCHANGED <<remote, local, unit, twin, FileVars>>

\* SshClient::backup_folder_with_progress called on the client as it is,
\* ssh_client.rs:329: the first backup, or another one after a successful one
backup_on_client ==
    /\ pc = "idle" \/ (pc = "done" /\ outcome.kind = "Ok" /\ ~first_run.done)
    /\ StartRun
    /\ UNCHANGED <<cancel_flag, session, connections>>

\* main.rs:125-158 once more after a successful run: the flag is reset and
\* the backup runs on a new SshClient
backup_xserver_folder_again ==
    /\ pc = "done" /\ outcome.kind = "Ok" /\ ~first_run.done
    /\ StartRun
    /\ cancel_flag' = FALSE
    /\ session' = "None"
    /\ connections' = 0

ClientNext ==
    \/ Next
    \/ establish_deadline_passes
    \/ file_deadline_passes
    \/ list_remote_directories
    \/ find_domains
    \/ client_test_connection
    \/ backup_on_client
    \/ backup_xserver_folder_again

ClientSpec == ClientInit /\ [][ClientNext]_vars

(***************************************************************************)
(* Two runs side by side.  The same backup is run with the sink of main.rs  *)
(* and with the sink that drops every snapshot, against the same remote     *)
(* tree, cancel flag and clock.  The variables hold the run whose turn it   *)
(* is and twin the other one; the first run takes a step, the second run    *)
(* then takes a step in which the environment answers as it answered the    *)
(* first (the same call fails, the same bytes are read), and so on.         *)
(***************************************************************************)
\* what belongs to one run: its client, its invocation and its local disk
RunState ==
    [session |-> session, connections |-> connections, pc |-> pc, stack |-> stack,
     xfer |-> xfer, top_throttle |-> top_throttle, events |-> events, local |-> local,
     outcome |-> outcome, transferred_files |-> transferred_files, copied |-> copied,
     failed |-> failed, deepest |-> deepest, interrupts |-> interrupts]

\* what the environment answered in the step that led to a state of a run:
\* the call that failed, the bytes the read returned, the interrupted read
\* (a run that stops at a checkpoint was not failed by the environment)
EnvAnswer(run) ==
    [failed |-> IF run.failed = "Cancelled" THEN "none" ELSE run.failed,
     xfer |-> run.xfer, interrupts |-> run.interrupts]

SinkInit ==
    /\ remote \in {[kind |-> "missing", list |-> <<>>]}
                  \cup {[kind |-> "dir", list |-> t] : t \in ClientTrees}
    /\ cancel_flag \in BOOLEAN
    /\ session = "None"
    /\ pc = "idle"
    /\ stack = <<>>
    /\ xfer = NoXfer
    /\ now = 0
    /\ top_throttle = ThrottleNew(0)
    /\ events = <<>>
    /\ local = {}
    /\ outcome = NoOutcome
    /\ transferred_files = 0
    /\ copied = <<>>
    /\ sig = NoSig
    /\ failed = "none"
    /\ deepest = 0
    /\ interrupts = 0
    /\ connections = 0
    /\ overdue = "none"
    /\ first_run = NoRun
    /\ unit = NoCall
    /\ twin = [on |-> TRUE, turn |-> "first", sink |-> "emit", mine |-> RunState,
               parked |-> RunState, pending |-> <<>>]
    /\ NoFiles

\* the run in the variables has not taken its step yet
ToStep == twin.on /\ RunState = twin.mine

\* both runs have taken the same number of steps: the first is in the
\* variables, the second in twin.parked
InStep == ToStep /\ twin.turn = "first"

\* the step of the second run gets the answers the first run got
SameAnswer ==
    twin.turn = "second" =>
        [failed |-> IF failed' = "Cancelled" THEN "none" ELSE failed',
         xfer |-> xfer', interrupts |-> interrupts'] = twin.pending

\* the run that has taken its step is put aside and the other one taken up
hand_over ==
    /\ twin.on
    /\ RunState # twin.mine
    /\ session' = twin.parked.session
    /\ connections' = twin.parked.connections
    /\ pc' = twin.parked.pc
    /\ stack' = twin.parked.stack
    /\ xfer' = twin.parked.xfer
    /\ top_throttle' = twin.parked.top_throttle
    /\ events' = twin.parked.events
    /\ local' = twin.parked.local
    /\ outcome' = twin.parked.outcome
    /\ transferred_files' = twin.parked.transferred_files
    /\ copied' = twin.parked.copied
    /\ failed' = twin.parked.failed
    /\ deepest' = twin.parked.deepest
    /\ interrupts' = twin.parked.interrupts
    /\ twin' = [on |-> TRUE,
                turn |-> IF twin.turn = "first" THEN "second" ELSE "first",
                sink |-> IF twin.sink = "emit" THEN "noop" ELSE "emit",
                mine |-> twin.parked,
                parked |-> RunState,
                pending |-> IF twin.turn = "first" THEN EnvAnswer(RunState) ELSE <<>>]
    /\ UNCHANGED <<remote, cancel_flag, sig, now, overdue, first_run, unit, FileVars>>

SinkNext ==
    \/ hand_over
    \/ (InStep /\ cancel_backup)
    \/ (InStep /\ second_backup_resets_flag)
    \/ (InStep /\ tick)
    \/ (ToStep /\ backup_xserver_folder /\ SameAnswer)
    \/ (ToStep /\ backup_folder_with_progress /\ SameAnswer)
    \/ (ToStep /\ test_connection /\ SameAnswer)
    \/ (ToStep /\ open_sftp /\ SameAnswer)
    \/ (ToStep /\ create_local_root /\ SameAnswer)
    \/ (ToStep /\ stat_remote_root /\ SameAnswer)
    \/ (ToStep /\ dir_enter /\ SameAnswer)
    \/ (ToStep /\ dir_create /\ SameAnswer)
    \/ (ToStep /\ read_dir /\ SameAnswer)
    \/ (ToStep /\ loop_entry /\ SameAnswer)
    \/ (ToStep /\ dir_return /\ SameAnswer)
    \/ (ToStep /\ open_remote /\ SameAnswer)
    \/ (ToStep /\ create_local /\ SameAnswer)
    \/ (ToStep /\ copy_chunk /\ SameAnswer)
    \/ (ToStep /\ copy_interrupted /\ SameAnswer)
    \/ (ToStep /\ copy_read_error /\ SameAnswer)
    \/ (ToStep /\ copy_eof /\ SameAnswer)
    \/ (ToStep /\ final_check /\ SameAnswer)
    \/ (ToStep /\ complete /\ SameAnswer)

SinkSpec == SinkInit /\ [][SinkNext]_vars

(***************************************************************************)
(* The backup history, backup_history.rs.  The history file is read, changed *)
(* and written back by one command at a time: every command of main.rs      *)
(* holds the mutex of AppState.backup_history_manager while it runs.  An    *)
(* entry is written with its id, timestamp, file count and status.          *)
(***************************************************************************)
\* number of commands on the history file that are followed
MaxCommands == 3
\* backup_history.rs:83-85, the number of entries kept
HISTORY_LIMIT == 100

BackupHistoryEntry(id, timestamp, files, status) ==
    [id |-> id, timestamp |-> timestamp, transferred_files |-> files, status |-> status]

\* mutant: the entries stay in the order they were pushed
sort_by_newest_unsorted(entries) == entries

\* entries.sort_by(|a, b| b.timestamp.cmp(&a.timestamp)): a stable sort, the
\* greatest timestamp first.  The entries newer than the one in the middle
\* come first, then those of its timestamp in the order they had, then the
\* older ones.
RECURSIVE sort_by_newest(_)
sort_by_newest(entries) ==
    IF Len(entries) <= 1 THEN entries
    ELSE LET middle == entries[(Len(entries) + 1) \div 2].timestamp IN
         sort_by_newest(SelectSeq(entries, LAMBDA e : e.timestamp > middle))
         \o SelectSeq(entries, LAMBDA e : e.timestamp = middle)
         \o sort_by_newest(SelectSeq(entries, LAMBDA e : e.timestamp < middle))

\* Vec::truncate
truncate(v, len) == IF Len(v) > len THEN SubSeq(v, 1, len) ELSE v

\* iter().filter(|entry| matches!(entry.status, status)).count()
count_status(entries, status) ==
    Cardinality({i \in 1..Len(entries) : entries[i].status = status})

\* backup_history.rs:69-86: the history add_backup_entry saves
with_entry(h, entry) ==
    LET pushed == Append(h.entries, entry) IN
    [entries |-> IF Len(pushed) > HISTORY_LIMIT
                 THEN truncate(sort_by_newest(pushed), HISTORY_LIMIT)
                 ELSE pushed,
     last_updated |-> now,
     total_backups |-> h.total_backups + 1,
     successful_backups |-> h.successful_backups + (IF entry.status = "Success" THEN 1 ELSE 0),
     failed_backups |-> h.failed_backups + (IF entry.status = "Failed" THEN 1 ELSE 0)]

\* backup_history.rs:232-241
recalculate_statistics(h) ==
    [h EXCEPT !.total_backups = Len(h.entries),
              !.successful_backups = count_status(h.entries, "Success"),
              !.failed_backups = count_status(h.entries, "Failed"),
              !.last_updated = now]

\* entries.retain(|entry| entry.id != entry_id)
retain_other_ids(entries, entry_id) == SelectSeq(entries, LAMBDA e : e.id # entry_id)

\* a history that adds have left behind: n entries pushed with the given
\* timestamps, every second one of a failed run, and `lost` entries discarded
HistoryOf(n, stamp(_), lost) ==
    LET entries == [i \in 1..n |->
                      BackupHistoryEntry(i, stamp(i), 1, IF i % 2 = 0 THEN "Failed" ELSE "Success")]
    IN [entries |-> entries, last_updated |-> 0, total_backups |-> n + lost,
        successful_backups |-> count_status(entries, "Success") + lost,
        failed_backups |-> count_status(entries, "Failed")]

Rising(i) == 10 + i
Falling(i) == 200 - i
Level(i) == 50

Histories ==
    {HistoryOf(n, Rising, 0) : n \in {0, 1, HISTORY_LIMIT - 1, HISTORY_LIMIT}}
    \cup {HistoryOf(n, Level, 0) : n \in {HISTORY_LIMIT - 1, HISTORY_LIMIT}}
    \cup {HistoryOf(HISTORY_LIMIT, Falling, lost) : lost \in {0, 1}}

\* the timestamps and the statuses new entries come with
NewEntries ==
    {[timestamp |-> 5, status |-> "Success"], [timestamp |-> 50, status |-> "Failed"],
     [timestamp |-> 300, status |-> "Cancelled"], [timestamp |-> 300, status |-> "Success"]}

\* the command has been called `calls` times so far
Called(fn, ok, v) == [fn |-> fn, ok |-> ok, v |-> v, calls |-> reply.calls + 1]
\* generate_backup_id: an id no entry has had before
generate_backup_id == 1000 + reply.calls

HistoryInit ==
    /\ remote = [kind |-> "missing", list |-> <<>>]
    /\ cancel_flag = FALSE
    /\ session = "None"
    /\ pc = "unit"
    /\ stack = <<>>
    /\ xfer = NoXfer
    /\ now \in {0, 1}
    /\ top_throttle = ThrottleNew(0)
    /\ events = <<>>
    /\ local = {}
    /\ outcome = NoOutcome
    /\ transferred_files = 0
    /\ copied = <<>>
    /\ sig = NoSig
    /\ failed = "none"
    /\ deepest = 0
    /\ interrupts = 0
    /\ connections = 0
    /\ overdue = "none"
    /\ first_run = NoRun
    /\ unit = NoCall
    /\ twin = NoTwin
    /\ history \in Histories
    /\ auth_settings = AuthSettingsDefault
    /\ lockout_info = LockoutInfoDefault
    /\ reply = NoReply

\* the variables the commands on the files leave alone
RunVars == <<remote, cancel_flag, session, pc, stack, xfer, now, top_throttle, events, local,
             outcome, transferred_files, copied, sig, failed, deepest, interrupts,
             connections, overdue, first_run, unit, twin>>

\* backup_history.rs:68-90.  Reading or writing the file may fail, and then
\* the file stays as it was.
add_backup_entry ==
    /\ reply.calls < MaxCommands
    /\ \E new \in NewEntries, io \in {"ok", "failed"} :
         LET entry == BackupHistoryEntry(generate_backup_id, new.timestamp, 1, new.status) IN
         /\ history' = IF io = "ok" THEN with_entry(history, entry) ELSE history
         /\ reply' = Called("add_backup_entry", io = "ok", entry)
    /\ UNCHANGED <<RunVars, auth_settings, lockout_info>>

\* backup_history.rs:181-195
delete_backup_entry ==
    /\ reply.calls < MaxCommands
    /\ \E entry_id \in {1, HISTORY_LIMIT, 1000, 7777}, io \in {"ok", "failed"} :
         LET kept == retain_other_ids(history.entries, entry_id)
             found == Len(kept) < Len(history.entries)
         IN
         /\ history' = IF io = "ok" /\ found
                       THEN recalculate_statistics([history EXCEPT !.entries = kept])
                       ELSE history
         /\ reply' = Called("delete_backup_entry", io = "ok", IF io = "ok" THEN found ELSE FALSE)
    /\ UNCHANGED <<RunVars, auth_settings, lockout_info>>

\* backup_history.rs:174-178
clear_history ==
    /\ reply.calls < MaxCommands
    /\ \E io \in {"ok", "failed"} :
         /\ history' = IF io = "ok" THEN BackupHistoryDefault ELSE history
         /\ reply' = Called("clear_history", io = "ok", <<>>)
    /\ UNCHANGED <<RunVars, auth_settings, lockout_info>>

\* main.rs:158-225: the match on what backup_folder_with_progress returned.
\* The entry carries the id and the timestamp taken before the run (146-150;
\* the clock of Init), the count read back from the summary text (163-172) or
\* zero (209), and the status.  A failure of add_backup_entry, or a poisoned
\* mutex, is only printed (194-198, 217-221).
backup_xserver_folder_returns ==
    /\ pc = "done"
    /\ reply.fn # "backup_xserver_folder"
    /\ \E io \in {"ok", "failed"} :
         LET entry == IF outcome.kind = "Ok"
                      THEN BackupHistoryEntry(generate_backup_id, 0, outcome.files, "Success")
                      ELSE BackupHistoryEntry(generate_backup_id, 0, 0, "Failed")
         IN
         /\ history' = IF io = "ok" THEN with_entry(history, entry) ELSE history
         /\ reply' = Called("backup_xserver_folder", outcome.kind = "Ok", entry)
    /\ UNCHANGED <<RunVars, auth_settings, lockout_info>>

HistoryNext ==
    \/ add_backup_entry
    \/ delete_backup_entry
    \/ clear_history

HistorySpec == HistoryInit /\ [][HistoryNext]_vars

\* a backup_xserver_folder command from its call to its return
CommandNext ==
    \/ Next
    \/ backup_xserver_folder_returns

CommandSpec == Init /\ [][CommandNext]_vars

(***************************************************************************)
(* PIN protection, auth_manager.rs.  The settings and the lockout record    *)
(* are two files of the configuration directory that every command reads    *)
(* and writes back; reading and writing them succeeds.  A PIN is a sequence *)
(* of characters.  The stored hash is written as the text it was made from: *)
(* verify_password accepts a PIN exactly if the hash was made from it.      *)
(***************************************************************************)
\* number of lockout periods the clock runs through
MaxLockouts == 2

Digits == {"0", "1", "2", "3", "4", "5", "6", "7", "8", "9"}
\* the PINs that are set up or tried
Pins == {<<"1", "2", "3", "4">>, <<"0", "0", "0", "0">>}
\* texts setup_pin refuses
BadPins == {<<"1", "2", "3">>, <<"1", "2", "a", "4">>}

\* Argon2 hash_password, and verify_password(..).is_ok()
hash_password(pin) == <<"argon2", pin>>
verify_password(pin, parsed_hash) == parsed_hash = hash_password(pin)

\* auth_manager.rs:180
lockout_duration_seconds(settings) == settings.lockout_duration_minutes * 60

\* the instants the clock shows: around the start and around the end of
\* each lockout period
AuthTimes ==
    {t \in UNION {{k * lockout_duration_seconds(AuthSettingsDefault) + d : d \in {-1, 0, 1}}
                     : k \in 0..MaxLockouts} : t >= 0}

\* mutant: the lockout is over as soon as it has begun
lockout_elapsed_at_once(settings, info, current_time) ==
    current_time >= info.last_attempt_timestamp

\* auth_manager.rs:182
lockout_elapsed(settings, info, current_time) ==
    current_time >= info.last_attempt_timestamp + lockout_duration_seconds(settings)

\* auth_manager.rs:174-189: the answer of is_locked_out
is_locked_out(settings, info) ==
    info.is_locked /\ ~lockout_elapsed(settings, info, now)

\* auth_manager.rs:183-185: the lockout file after is_locked_out has run
after_is_locked_out(settings, info) ==
    IF info.is_locked /\ lockout_elapsed(settings, info, now) THEN LockoutInfoDefault ELSE info

\* auth_manager.rs:117, 149: the record the failed attempt is counted on is
\* the one loaded when verify_pin began
attempts_from(loaded, stored) == loaded

\* auth_manager.rs:149-154
count_failure(settings, info) ==
    LET n == info.failed_attempts + 1 IN
    [failed_attempts |-> n, last_attempt_timestamp |-> now,
     is_locked |-> info.is_locked \/ n >= settings.max_attempts]

\* the wrong PINs tried in a row so far, counted up to max_attempts
Streak == IF reply.fn = "verify_pin" THEN reply.v.streak ELSE 0

Answer(fn, ok, v) == [fn |-> fn, ok |-> ok, v |-> v, calls |-> reply.calls]

AuthInit ==
    /\ remote = [kind |-> "missing", list |-> <<>>]
    /\ cancel_flag = FALSE
    /\ session = "None"
    /\ pc = "unit"
    /\ stack = <<>>
    /\ xfer = NoXfer
    /\ now = 0
    /\ top_throttle = ThrottleNew(0)
    /\ events = <<>>
    /\ local = {}
    /\ outcome = NoOutcome
    /\ transferred_files = 0
    /\ copied = <<>>
    /\ sig = NoSig
    /\ failed = "none"
    /\ deepest = 0
    /\ interrupts = 0
    /\ connections = 0
    /\ overdue = "none"
    /\ first_run = NoRun
    /\ unit = NoCall
    /\ twin = NoTwin
    /\ NoFiles

\* the variables the commands of the AuthManager leave alone
AuthFrame == <<remote, cancel_flag, session, pc, stack, xfer, top_throttle, events, local,
               outcome, transferred_files, copied, sig, failed, deepest, interrupts,
               connections, overdue, first_run, unit, twin, history>>

\* auth_manager.rs:67-96
setup_pin ==
    /\ \E pin \in Pins \cup BadPins :
         IF Len(pin) < 4 \/ Len(pin) > 20 \/ \E i \in 1..Len(pin) : pin[i] \notin Digits
         THEN /\ reply' = Answer("setup_pin", FALSE, [pin |-> pin])
              /\ UNCHANGED <<auth_settings, lockout_info>>
         ELSE /\ auth_settings' = [AuthSettingsDefault EXCEPT
                                      !.pin_hash = Some(hash_password(pin)),
                                      !.is_enabled = TRUE]
              /\ lockout_info' = LockoutInfoDefault
              /\ reply' = Answer("setup_pin", TRUE, [pin |-> pin])
    /\ UNCHANGED <<AuthFrame, now>>

\* auth_manager.rs:99-106
disable_pin ==
    /\ auth_settings' = [auth_settings EXCEPT !.is_enabled = FALSE, !.pin_hash = None]
    /\ lockout_info' = LockoutInfoDefault
    /\ reply' = Answer("disable_pin", TRUE, <<>>)
    /\ UNCHANGED <<AuthFrame, now>>

\* auth_manager.rs:115-171
verify_pin ==
    /\ \E pin \in Pins :
         LET settings == auth_settings
             loaded == lockout_info
             stored == after_is_locked_out(settings, loaded)
             wrong == /\ settings.is_enabled /\ settings.pin_hash.some
                      /\ ~verify_password(pin, settings.pin_hash.v)
             streak == IF wrong
                       THEN IF Streak < settings.max_attempts THEN Streak + 1 ELSE Streak
                       ELSE 0
         IN
         IF ~settings.is_enabled \/ ~settings.pin_hash.some
         THEN /\ reply' = Answer("verify_pin", TRUE,
                                 [pin |-> pin, msg |-> "", remaining |-> 0, streak |-> 0])
              /\ UNCHANGED lockout_info
         ELSE IF is_locked_out(settings, loaded)
         THEN /\ reply' = Answer("verify_pin", FALSE,
                                 [pin |-> pin, msg |-> "locked out", remaining |-> 0,
                                  streak |-> IF wrong THEN streak ELSE Streak])
              /\ UNCHANGED lockout_info
         ELSE IF verify_password(pin, settings.pin_hash.v)
         THEN /\ lockout_info' = LockoutInfoDefault
              /\ reply' = Answer("verify_pin", TRUE,
                                 [pin |-> pin, msg |-> "", remaining |-> 0, streak |-> 0])
         ELSE LET counted == count_failure(settings, attempts_from(loaded, stored))
                  remaining_attempts ==
                      saturating_sub(settings.max_attempts, counted.failed_attempts)
              IN /\ lockout_info' = counted
                 /\ reply' = Answer("verify_pin", FALSE,
                                    [pin |-> pin,
                                     msg |-> IF remaining_attempts > 0 THEN "wrong pin"
                                             ELSE "wrong pin, locked out",
                                     remaining |-> remaining_attempts, streak |-> streak])
    /\ UNCHANGED <<AuthFrame, now, auth_settings>>

\* the system clock moves on
auth_clock ==
    /\ \E t \in AuthTimes : t > now /\ now' = t
    /\ UNCHANGED <<AuthFrame, auth_settings, lockout_info, reply>>

AuthNext ==
    \/ setup_pin
    \/ disable_pin
    \/ verify_pin
    \/ auth_clock

AuthSpec == AuthInit /\ [][AuthNext]_vars

(***************************************************************************)
(* What the claims speak about.                                             *)
(***************************************************************************)
Done == pc = "done"
Success == Done /\ outcome.kind = "Ok"
Cancelled == Done /\ outcome.kind = "Err" /\ outcome.cause = "Cancelled"

\* the regular files at or below a listing that are not hidden: neither
\* their own name nor the name of a directory above them begins with '.'
RECURSIVE NonHiddenFilesBelow(_)
NonHiddenFilesBelow(list) ==
    IF list = <<>> THEN 0
    ELSE LET e == Head(list) IN
         (IF BeginsWithDot(e.name) THEN 0
          ELSE IF e.kind = "file" THEN 1
          ELSE IF e.kind = "dir" THEN NonHiddenFilesBelow(e.sub)
          ELSE 0)
         + NonHiddenFilesBelow(Tail(list))

\* the regular files at or below a listing
RECURSIVE AllFilesBelow(_)
AllFilesBelow(list) ==
    IF list = <<>> THEN 0
    ELSE LET e == Head(list) IN
         (IF e.kind = "file" THEN 1 ELSE 0)
         + (IF e.kind = "dir" THEN AllFilesBelow(e.sub) ELSE 0)
         + AllFilesBelow(Tail(list))

\* a name that is UTF-8 text beginning with '.'
TextBeginningWithDot(name) ==
    BeginsWithDot(name) /\ \A i \in 1..Len(name) : name[i] < 128

\* the regular files reachable from a listing along a path of which no name,
\* the file's included, is UTF-8 text beginning with '.'
RECURSIVE ReachableFiles(_)
ReachableFiles(list) ==
    IF list = <<>> THEN 0
    ELSE LET e == Head(list) IN
         (IF TextBeginningWithDot(e.name) THEN 0
          ELSE IF e.kind = "file" THEN 1
          ELSE IF e.kind = "dir" THEN ReachableFiles(e.sub)
          ELSE 0)
         + ReachableFiles(Tail(list))

RECURSIVE SumBytes(_)
SumBytes(files) ==
    IF files = <<>> THEN 0 ELSE Head(files).bytes + SumBytes(Tail(files))

\* every file this invocation fully copied is on the local disk with its bytes
CopiedFilesRemain ==
    \A i \in 1..Len(copied) : LocalFile(copied[i].path, copied[i].bytes) \in local

\* the failures that can precede the traversal
PreTraversalCauses ==
    {f.cause : f \in EstablishFailures}
    \cup {"SftpFailed", "LocalRootFailed", "RemoteRootNotDirectory", "RemoteRootMissing"}

(***************************************************************************)
(* C1.                                                                      *)
(***************************************************************************)
\* C1: on Success with the signal never set, the reported count is the
\* number of regular non-hidden files at or below the remote root.
C1_CountIsNonHiddenFilesBelowRoot ==
    (Success /\ ~sig.set) => outcome.files = NonHiddenFilesBelow(remote.list)

\* what the traversal does count: the regular files reachable along a path
\* of which no name is UTF-8 text beginning with '.'
CountIsReachableFiles ==
    (Success /\ ~sig.set) => outcome.files = ReachableFiles(remote.list)

(***************************************************************************)
(* C2.                                                                      *)
(***************************************************************************)
\* C2 as stated: in every state no entry whose name begins with '.' has a
\* counterpart in the local mirror or is among the files counted.
C2_NoDotEntryMirroredOrCounted ==
    /\ \A nd \in local : \A k \in 1..Len(nd.path) : ~BeginsWithDot(nd.path[k])
    /\ \A i \in 1..Len(copied) :
          \A k \in 1..Len(copied[i].path) : ~BeginsWithDot(copied[i].path[k])

(***************************************************************************)
(* C3.                                                                      *)
(***************************************************************************)
\* C3 as stated: a run that starts with the signal set ends Cancelled with
\* zero files transferred.
C3_PresetSignalEndsCancelled ==
    (Done /\ sig.at_start) => (outcome.cause = "Cancelled" /\ copied = <<>>)

\* C3 amended: a run that starts with the signal set, the signal staying
\* set, transfers zero files and ends Cancelled, unless session
\* establishment, the SFTP channel, the local root or the check of the
\* remote root fails first, in which case it ends with that failure.
C3_PresetSignalEndsCancelledOrFailsEarly ==
    (sig.at_start /\ ~sig.cleared) =>
        /\ copied = <<>>
        /\ \A nd \in local : nd.kind = "dir"
        /\ Done => /\ outcome.kind = "Err"
                   /\ outcome.cause \in {"Cancelled"} \cup PreTraversalCauses

\* the signal was set at the start, stayed set, and the run ended Cancelled
C3_Witness ==
    Cancelled /\ sig.at_start /\ ~sig.cleared /\ copied = <<>>

(***************************************************************************)
(* C4.                                                                      *)
(***************************************************************************)
\* C4 as stated: a run during which the signal was set at any point, and in
\* which nothing else failed, ends Cancelled and not Success, with at most
\* the available files transferred and every copied file still on disk.
C4_SignalSetEndsCancelled ==
    (Done /\ sig.set /\ failed \in {"none", "Cancelled"}) =>
        /\ Cancelled
        /\ Len(copied) <= AllFilesBelow(remote.list)
        /\ CopiedFilesRemain

\* C4 amended: the same for a signal that is set no later than the final
\* checkpoint (ssh_client.rs:434) and is not reset before the engine polls
\* it; a signal set after the final checkpoint was passed, or reset by a
\* second backup_xserver_folder, leaves the outcome Success.
C4_SignalSetBeforeFinalCheckEndsCancelled ==
    (Done /\ sig.set /\ ~sig.late /\ ~sig.cleared /\ failed \in {"none", "Cancelled"}) =>
        /\ Cancelled
        /\ Len(copied) <= AllFilesBelow(remote.list)
        /\ CopiedFilesRemain

\* a run cancelled at the final checkpoint, after every file was copied
C4_Witness ==
    /\ Cancelled /\ sig.set /\ ~sig.late /\ ~sig.cleared
    /\ Len(copied) > 0
    /\ Len(copied) = ReachableFiles(remote.list)

(***************************************************************************)
(* C5.                                                                      *)
(***************************************************************************)
\* C5 as stated: a Cancelled outcome reaches the caller without any of the
\* classifier's templates, and every other failure reaches it with one.
C5_CancelledBypassesClassifier ==
    (Done /\ outcome.kind = "Err") =>
        IF outcome.cause = "Cancelled"
        THEN \A t \in Templates : ~HasTemplate(outcome.msg, t)
        ELSE \E t \in Templates : HasTemplate(outcome.msg, t)

(***************************************************************************)
(* C6.                                                                      *)
(***************************************************************************)
\* sftp.open is called for a file, ssh_client.rs:772
BeginsTransfer == pc = "open" /\ pc' # "open"
\* sftp.readdir is called for a directory, ssh_client.rs:730
ListsDirectory == pc = "readdir" /\ pc' # "readdir"
\* the engine is at a point where it polls the flag before going on
AtCheckpoint ==
    \/ pc = "dir_enter"
    \/ pc = "loop" /\ Top.i <= Len(Top.listing)
    \/ pc = "final"
\* a file is being opened, created or copied
InFlight == pc \in {"open", "create", "copy"}

\* C6 as stated: in no step taken while the signal is set and stays set does
\* the engine begin a file transfer or list a directory.
C6_NoTransferOrListingOnceSet ==
    [][(cancel_flag /\ cancel_flag') => ~(BeginsTransfer \/ ListsDirectory)]_vars

\* C6 amended: the signal is polled at the start of every directory, before
\* every entry and after the traversal, so a step taken from one of these
\* points while the signal is set ends the run Cancelled; the operation whose
\* poll was passed before the signal was set (the transfer of the current
\* entry, or the creation and listing of the current directory) still
\* begins, and a transfer in flight is never ended by the signal.
C6_CheckpointsStopTheRun ==
    [][(cancel_flag /\ cancel_flag') =>
          /\ AtCheckpoint => (pc' = "done" /\ outcome'.cause = "Cancelled")
          /\ InFlight => outcome'.cause # "Cancelled"]_vars

\* the last chunk of a file has been copied while the signal is set
C6_Witness ==
    cancel_flag /\ pc = "copy" /\ xfer.active /\ xfer.remaining = 0 /\ xfer.total_bytes > 0

(***************************************************************************)
(* C7.                                                                      *)
(***************************************************************************)
\* the directory on top of the stack is being created, listed or walked
InsideDirectory == pc \in {"mkdir", "readdir", "loop", "open", "create", "copy"}

\* C7 as stated: a run that reached a directory more than 50 levels below
\* the root ends RecursionTooDeep, and no directory deeper than 50 is ever
\* created, listed or walked.
C7_TooDeepEndsRecursionTooDeep ==
    /\ (Done /\ deepest > MAX_DEPTH) =>
          (outcome.kind = "Err" /\ outcome.cause = "RecursionTooDeep")
    /\ InsideDirectory => Top.depth <= MAX_DEPTH

\* C7 amended: such a run never ends Success; it ends RecursionTooDeep, or
\* Cancelled when the signal is set as the directory is entered, because the
\* signal is polled (ssh_client.rs:713) before the depth is checked (:718).
C7_TooDeepNeverSucceeds ==
    /\ (Done /\ deepest > MAX_DEPTH) =>
          (outcome.kind = "Err" /\ outcome.cause \in {"RecursionTooDeep", "Cancelled"})
    /\ InsideDirectory => Top.depth <= MAX_DEPTH

\* a run that entered level 51 and ended RecursionTooDeep
C7_Witness ==
    Done /\ deepest > MAX_DEPTH /\ outcome.cause = "RecursionTooDeep"

(***************************************************************************)
(* C8.                                                                      *)
(***************************************************************************)
\* C8: once anything has failed the run is over with that failure as its
\* outcome, and no later step changes the local mirror, the files copied,
\* the traversal or the outcome.
C8_FailureAbortsRun ==
    /\ [](failed # "none" =>
            /\ Done /\ stack = <<>> /\ ~xfer.active
            /\ outcome.kind = "Err" /\ outcome.cause = failed)
    /\ [][failed # "none" => UNCHANGED <<local, copied, stack, outcome, events>>]_vars

\* a copy failed after another file had been copied
C8_Witness ==
    Done /\ failed = "CopyFailed" /\ Len(copied) > 0 /\ outcome.kind = "Err"

(***************************************************************************)
(* C9.                                                                      *)
(***************************************************************************)
\* C9: the bytes carried by successive progress events never decrease.
C9_BytesNeverDecrease ==
    \A i \in 1..(Len(events) - 1) :
        events[i].transferred_bytes <= events[i + 1].transferred_bytes

(***************************************************************************)
(* C10.                                                                     *)
(***************************************************************************)
\* C10: every progress event emitted during the traversal carries the number
\* of files copied so far in the invocation and the sum of their bytes.
C10_EventsCarryInvocationTotals ==
    [][(Len(events') > Len(events) /\ events'[Len(events')].phase = "transferring") =>
          /\ events'[Len(events')].transferred_files = Len(copied')
          /\ events'[Len(events')].transferred_bytes = SumBytes(copied')]_vars

(***************************************************************************)
(* C11.                                                                     *)
(***************************************************************************)
\* C11: should_update(bytes) returns true exactly when at least 3 seconds
\* have passed since the last true result (or the construction) or bytes
\* exceeds the byte count of the last true result by at least 50 MiB; on
\* true both trackers become the current time and bytes, on false the
\* throttle is unchanged.
C11_ShouldUpdateDecision ==
    (unit.fn = "should_update" /\ unit.called) =>
        LET due == \/ unit.at - unit.since0 >= 3
                   \/ unit.bytes - unit.mark0 >= 50 * 1024 * 1024
        IN  /\ unit.result <=> due
            /\ unit.result => /\ unit.th.last_update = unit.at
                              /\ unit.th.last_bytes = unit.bytes
                              /\ unit.th.start_time = unit.before.start_time
            /\ ~unit.result => unit.th = unit.before

\* a call answered true on the byte threshold alone, less than 3 seconds
\* after a call answered true
C11_Witness ==
    /\ unit.fn = "should_update" /\ unit.called /\ unit.result
    /\ unit.at - unit.since0 < 3
    /\ unit.since0 > 1
    /\ unit.bytes - unit.mark0 = 50 * 1024 * 1024

(***************************************************************************)
(* C12.                                                                     *)
(***************************************************************************)
\* the 'transferring' events of the invocation, in order
TransferringEvents ==
    LET IsTransferring(e) == e.phase = "transferring"
    IN  SelectSeq(events, IsTransferring)

\* C12: two consecutive 'transferring' events of one invocation are at
\* least 3 seconds apart, unless 50 MiB were transferred between them (which
\* needs the invocation to have copied 50 MiB in all).
C12_TransferringEventsSpaced ==
    \A i \in 1..(Len(TransferringEvents) - 1) :
        \/ TransferringEvents[i + 1].at - TransferringEvents[i].at >= 3
        \/ SumBytes(copied) >= 50 * 1024 * 1024

(***************************************************************************)
(* C13.                                                                     *)
(***************************************************************************)
\* the categories in the order of their priority, each with its keywords
PriorityOrder ==
    << [cat |-> "Authentication",
        kws |-> {KwAuthentication, KwPublickey, KwPassphrase, KwPermissionDeniedPublickey}],
       [cat |-> "Network",
        kws |-> {KwConnection, KwTimeout, KwDns, KwNetwork, KwHost}],
       [cat |-> "Permission",
        kws |-> {KwPermissionDenied, KwAccessDenied, KwForbidden}],
       [cat |-> "Disk",       kws |-> {KwNoSpace, KwDiskFull, KwQuota}],
       [cat |-> "Timeout",    kws |-> {KwTimeout, KwTimedOut}],
       [cat |-> "Filesystem", kws |-> {KwNoSuchFile, KwNotFound, KwInvalidPath}] >>

\* two characters that are equal up to the case of a letter
SameLetter(c, d) ==
    c = d \/ \E j \in 1..26 : {c, d} = {UpperCase[j], LowerCase[j]}

\* the keyword occurs in the message, in whatever case
Mentions(msg, kw) ==
    \E i \in 1..(Len(msg) - Len(kw) + 1) :
        \A k \in 1..Len(kw) : SameLetter(msg[i + k - 1], kw[k])

\* the first category in the order of which the message mentions a keyword
FirstMatch(msg) ==
    LET hits == {i \in 1..Len(PriorityOrder) :
                    \E kw \in PriorityOrder[i].kws : Mentions(msg, kw)}
    IN  IF hits = {} THEN "Fallback"
        ELSE PriorityOrder[CHOOSE i \in hits : \A j \in hits : i <= j].cat

C14_TcpFailureIsNetworkError ==
    (Done /\ failed = "TcpConnectFailed") =>
        /\ HasTemplate(outcome.msg, NetworkTemplate)
        /\ ~HasTemplate(outcome.msg, FallbackTemplate)

(***************************************************************************)
(* C15.                                                                     *)
(***************************************************************************)
\* C15: a run during which the deadline of a file transfer expired ends in
\* a failure under the Timeout template.
C15_FileDeadlineEndsInTimeoutFailure ==
    (Done /\ overdue = "file") =>
        (outcome.kind = "Err" /\ HasTemplate(outcome.msg, TimeoutTemplate))

(***************************************************************************)
(* C16.                                                                     *)
(***************************************************************************)
\* C16: a run during which session establishment exceeded its 30 seconds
\* ends in an error under the Timeout template, not the Fallback one.
C16_EstablishDeadlineEndsInTimeoutError ==
    (Done /\ overdue = "establish") =>
        /\ outcome.kind = "Err"
        /\ HasTemplate(outcome.msg, TimeoutTemplate)
        /\ ~HasTemplate(outcome.msg, FallbackTemplate)

(***************************************************************************)
(* C17.                                                                     *)
(***************************************************************************)
\* the seconds C17 gives a size of hi GiB and lo bytes
SecondsFor(size) ==
    IF size.hi >= 1 THEN 1800
    ELSE IF size.lo >= 100 * 1024 * 1024 THEN 600
    ELSE IF size.lo >= 10 * 1024 * 1024 THEN 120
    ELSE 60

RECURSIVE NonHiddenFiles(_, _)
NonHiddenFiles(list, prefix) ==
    UNION { LET e == list[i] IN
            IF BeginsWithDot(e.name) THEN {}
            ELSE IF e.kind = "file"
            THEN {[path |-> Append(prefix, e.name), bytes |-> e.bytes]}
            ELSE IF e.kind = "dir"
            THEN NonHiddenFiles(e.sub, Append(prefix, e.name))
            ELSE {} : i \in 1..Len(list) }

\* every such file has a local file at the same path with the same bytes
MirrorHoldsNonHiddenFiles ==
    Success =>
        \A f \in NonHiddenFiles(remote.list, <<>>) : LocalFile(f.path, f.bytes) \in local

\* C18: on Success every regular non-hidden file reached through non-hidden
\* directories is mirrored at the same path with the same content, and the
\* mirror holds no counterpart of a hidden entry.
C18_MirrorIsTheNonHiddenTree ==
    Success =>
        /\ \A f \in NonHiddenFiles(remote.list, <<>>) :
              LocalFile(f.path, f.bytes) \in local
        /\ \A nd \in local : \A k \in 1..Len(nd.path) : ~BeginsWithDot(nd.path[k])

(***************************************************************************)
(* C19.                                                                     *)
(***************************************************************************)
\* C19: a successful run that follows a successful run on the same remote
\* tree leaves the same local tree and reports the same count.
C19_SecondRunLeavesSameTree ==
    (Success /\ first_run.done) =>
        (local = first_run.local /\ outcome.files = first_run.files)

\* a second successful run that copied a file again into an existing
\* directory below the root
C19_Witness ==
    /\ Success /\ first_run.done
    /\ outcome.files > 0
    /\ \E nd \in local : nd.kind = "file" /\ Len(nd.path) = 2 /\ nd.bytes = FileLen

(***************************************************************************)
(* C20.                                                                     *)
(***************************************************************************)
\* C20: while the client holds a session, no step of a listing, a domain
\* discovery or a backup opens a connection or replaces the session; the
\* session changes only when test_connection is called on its own or when
\* the caller builds a new client.
C20_SessionIsReused ==
    /\ [](session = "Some" => connections >= 1)
    /\ [][session = "Some" =>
            \/ session' = "Some" /\ connections' = connections
            \/ client_test_connection
            \/ backup_xserver_folder
            \/ backup_xserver_folder_again]_vars

\* a backup succeeded on the session an earlier operation had established:
\* it opened no connection of its own
C20_Witness ==
    /\ Success /\ session = "Some" /\ connections = 1
    /\ \A i \in 1..Len(events) : events[i].phase # "ssh_connecting"

(***************************************************************************)
(* C21.                                                                     *)
(***************************************************************************)
\* C21: an invocation returns one outcome, a Success or an error (a failure
\* or a cancellation); the outcome is returned exactly when the invocation
\* is over, it never changes afterwards, and no progress event is emitted
\* once it has been returned.
C21_OneOutcomeAfterAllEvents ==
    /\ [](/\ Done <=> outcome # NoOutcome
          /\ Done => outcome.kind \in {"Ok", "Err"})
    /\ [][outcome # NoOutcome => UNCHANGED <<outcome, events>>]_vars

\* a run that failed in the middle of the traversal, after it had emitted
\* the events of its start and copied a file
C21_Witness ==
    /\ Done /\ outcome.kind = "Err" /\ outcome.cause = "OpenFailed"
    /\ Len(copied) > 0
    /\ events[Len(events)].phase = "transfer_start"

(***************************************************************************)
(* C22.                                                                     *)
(***************************************************************************)
\* C22: two runs that see the same remote tree, the same failures and the
\* same cancellation timing, one with the sink of the application and one
\* with the sink that drops every snapshot, are after every step at the same
\* place with the same outcome, the same transferred-file count, the same
\* files copied and the same local mirror.
C22_SinkDoesNotAffectControlFlow ==
    InStep =>
        /\ twin.parked.pc = pc
        /\ twin.parked.outcome = outcome
        /\ twin.parked.transferred_files = transferred_files
        /\ twin.parked.copied = copied
        /\ twin.parked.local = local

\* both runs were cancelled at the same place after they had copied files;
\* one sink received a 'transferring' snapshot among others, the other sink
\* kept nothing
C22_Witness ==
    /\ InStep /\ Cancelled /\ Len(copied) >= 1
    /\ twin.parked.outcome = outcome
    /\ \E i \in 1..Len(events) : events[i].phase = "transferring"
    /\ twin.parked.events = <<>>

(***************************************************************************)
(* C23.                                                                     *)
(***************************************************************************)
\* C23: the value of the cancellation flag changes only in a step of the
\* caller (the reset at the start of backup_xserver_folder, the request of
\* cancel_backup); no step of the engine changes it.
C23_EngineNeverWritesFlag ==
    [][cancel_flag' # cancel_flag =>
          \/ backup_xserver_folder
          \/ cancel_backup
          \/ second_backup_resets_flag]_vars

\* the engine saw the flag that was set during the run, built the Cancelled
\* outcome, and the flag is still set
C23_Witness ==
    Cancelled /\ cancel_flag /\ sig.set /\ ~sig.at_start /\ Len(copied) > 0

(***************************************************************************)
(* C28.                                                                     *)
(***************************************************************************)
\* C28: a run whose remote root is missing or is not a directory fails with
\* no file transferred and without the local root directory having been
\* created.
C28_RemoteRootCheckedBeforeLocalRoot ==
    (Done /\ failed \in {"RemoteRootMissing", "RemoteRootNotDirectory"}) =>
        /\ copied = <<>>
        /\ outcome.kind = "Err"
        /\ LocalAt(<<>>) = {}

(***************************************************************************)
(* C30.                                                                     *)
(***************************************************************************)
\* the 'complete' snapshots among the events
CompleteEvents == {i \in 1..Len(events) : events[i].phase = "complete"}

\* C30: on Success the last event emitted is the 'complete' snapshot, with
\* the file count of the summary; a run that ends in a failure or Cancelled
\* has emitted no 'complete' snapshot.
C30_CompleteSnapshotOnlyOnSuccess ==
    /\ Success => /\ CompleteEvents = {Len(events)}
                  /\ events[Len(events)].transferred_files = outcome.files
                  /\ events[Len(events)].total_files = Some(outcome.files)
    /\ (Done /\ outcome.kind = "Err") => CompleteEvents = {}

\* a Success over a tree with a file in a sub-directory, its last event
\* being the 'complete' snapshot
C30_Witness ==
    /\ Success /\ outcome.files = 2 /\ deepest = 1
    /\ events[Len(events)].phase = "complete"
    /\ events[Len(events)].transferred_files = 2

(***************************************************************************)
(* C24.                                                                     *)
(***************************************************************************)
\* C24: when the copy returns successfully, the local handle has received,
\* in order, exactly the chunks the reads returned up to the first read of
\* length 0, and the total returned is the number of bytes written.
C24_CopyWritesTheChunksInOrder ==
    (unit.fn = "transfer_file_optimized" /\ unit.called /\ unit.result.v.ok) =>
        /\ unit.last = "eof"
        /\ unit.written = unit.chunks
        /\ unit.written = unit.src
        /\ unit.result.v.v = Len(unit.written)

\* a file of three bytes was copied in two reads around an interrupted one
C24_Witness ==
    /\ unit.fn = "transfer_file_optimized" /\ unit.called /\ unit.result.v.ok
    /\ unit.written = <<7, 8, 9>> /\ unit.intr = 1 /\ unit.buffer = <<9, 8>>

(***************************************************************************)
(* C25.                                                                     *)
(***************************************************************************)
\* C25: in an invocation an interrupted read changes neither the local file
\* nor the byte total and leaves the engine at the read; any other read
\* error and any write failure end the copy, and the run, at once with an
\* error; the read of length 0 ends the copy normally, the file being
\* counted; and no failure other than the interrupted read is passed over:
\* every step in which something fails ends the run.
C25_OnlyInterruptedReadIsRetried ==
    /\ [][interrupts' # interrupts =>
             /\ pc = "copy" /\ pc' = "copy"
             /\ UNCHANGED <<local, xfer, stack, outcome, failed, copied, events>>]_vars
    /\ [][(pc = "copy" /\ pc' # "copy") =>
             \/ /\ failed' = "CopyFailed" /\ pc' = "done" /\ outcome'.kind = "Err"
                /\ ~xfer'.active /\ copied' = copied
             \/ /\ xfer.remaining = 0 /\ failed' = "none" /\ pc' = "loop"
                /\ Len(copied') = Len(copied) + 1
                /\ copied'[Len(copied')].bytes = xfer.total_bytes]_vars
    /\ [][failed' # failed => (failed = "none" /\ pc' = "done" /\ outcome'.cause = failed')]_vars

\* a run in which a read was interrupted and the file was still copied whole
C25_Witness ==
    /\ Success /\ interrupts = 1 /\ Len(copied) = 1
    /\ copied[1].bytes = FileLen
    /\ LocalFile(copied[1].path, FileLen) \in local

(***************************************************************************)
(* C26.                                                                     *)
(***************************************************************************)
\* C26: when the directory cannot be read, list_remote_directories returns
\* the empty list as a success and find_domains returns an error; when the
\* session cannot be established, both return an error.
C26_UnreadableDirectoryIsEmptyOrFatal ==
    (unit.fn \in {"list_remote_directories", "find_domains"} /\ unit.called) =>
        /\ (unit.fault = "readdir" /\ unit.fn = "list_remote_directories")
              => unit.result = Ok(<<>>)
        /\ (unit.fault = "readdir" /\ unit.fn = "find_domains") => ~unit.result.v.ok
        /\ unit.fault = "establish" => (~unit.result.v.ok /\ session = "None")

\* the listing of a directory that holds a directory could not be read, on
\* a session that had been established
C26_Witness ==
    /\ unit.fn = "list_remote_directories" /\ unit.called
    /\ unit.fault = "readdir" /\ session = "Some"
    /\ \E i \in 1..Len(unit.home) : unit.home[i].kind = "dir"
    /\ unit.result.v.ok

(***************************************************************************)
(* C27.                                                                     *)
(***************************************************************************)
\* the name contains the byte '.'
ContainsDot(name) == \E i \in 1..Len(name) : name[i] = Dot

\* the path C27 gives a child directory of the home directory
DomainPath(dir, e) ==
    IF e.public_html # "absent"
    THEN entry_path(entry_path(dir, e.name),
                    <<112, 117, 98, 108, 105, 99, 95, 104, 116, 109, 108>>)
    ELSE entry_path(dir, e.name)

\* the child directories whose name contains a dot and does not start with one
DomainLike(home) ==
    {i \in 1..Len(home) : /\ home[i].kind = "dir"
                          /\ ContainsDot(home[i].name)
                          /\ ~BeginsWithDot(home[i].name)}

\* the sequence holds no pair out of order
IsSorted(v) == \A i \in 1..Len(v) : \A j \in i..Len(v) : ~LexLess(v[j], v[i])

\* C27: find_domains returns, sorted, exactly one path for each child
\* directory of the home directory whose name contains a dot and does not
\* start with a dot: that of its public_html when that exists, and the
\* directory's own path otherwise.
C27_OnePathPerDomainDirectory ==
    (unit.fn = "find_domains" /\ unit.called /\ unit.result.v.ok) =>
        LET v == unit.result.v.v IN
        /\ Len(v) = Cardinality(DomainLike(unit.home))
        /\ {v[i] : i \in 1..Len(v)} = {DomainPath(unit.dir, unit.home[i]) : i \in DomainLike(unit.home)}
        /\ IsSorted(v)

\* the same for a home directory in which every name is UTF-8 text and the
\* stat of every public_html that exists succeeds
DomainsOfReadableTextNames ==
    (/\ unit.fn = "find_domains" /\ unit.called /\ unit.result.v.ok
     /\ \A i \in 1..Len(unit.home) : /\ to_str(unit.home[i].name).some
                                     /\ unit.home[i].public_html # "unreadable") =>
        LET v == unit.result.v.v IN
        /\ Len(v) = Cardinality(DomainLike(unit.home))
        /\ {v[i] : i \in 1..Len(v)} = {DomainPath(unit.dir, unit.home[i]) : i \in DomainLike(unit.home)}
        /\ IsSorted(v)

\* two domains were found, listed out of order, one with a public_html
DomainsFoundAndSorted ==
    /\ unit.fn = "find_domains" /\ unit.called /\ unit.result.v.ok
    /\ Len(unit.result.v.v) = 2
    /\ unit.home[1].name[1] = 98
    /\ \E i \in 1..2 : unit.home[i].public_html = "present"

(***************************************************************************)
(* C29.                                                                     *)
(***************************************************************************)
\* the permission bits give something to group or other
GroupOrOtherBits(mode) == (mode % 8) # 0 \/ ((mode \div 8) % 8) # 0

\* the three octal digits of the permission bits, as one writes a mode
ModeDigits(mode) ==
    LET d(k) == <<"0", "1", "2", "3", "4", "5", "6", "7">>[k + 1]
    IN  <<d((mode \div 64) % 8), d((mode \div 8) % 8), d(mode % 8)>>

\* the text without the zeros it begins with
RECURSIVE WithoutLeadingZeros(_)
WithoutLeadingZeros(t) ==
    IF Len(t) > 1 /\ t[1] = "0" THEN WithoutLeadingZeros(Tail(t)) ELSE t

\* C29: when the private-key file does not exist, or its permission bits
\* give any access to group or other, session establishment does not call
\* the public-key authentication, stores no session and fails; and when it
\* fails on the permission bits, its message holds the octal mode of the
\* file and the command "chmod 600" with the path of the key.
C29_UnsafeKeyNeverAuthenticates ==
    (/\ unit.fn = "test_connection" /\ unit.called
     /\ ~unit.key.exists \/ GroupOrOtherBits(unit.key.mode)) =>
        /\ ~unit.auth_attempted
        /\ unit.holds = unit.held
        /\ ~unit.result.v.ok
        /\ unit.cause = "UnsafeKeyMode" =>
              /\ contains(unit.result.v.v, WithoutLeadingZeros(ModeDigits(unit.key.mode)))
              /\ contains(unit.result.v.v,
                          <<"c", "h", "m", "o", "d", " ", "6", "0", "0", " ", "/", "k">>)

\* establishment came to the key file, which is readable by the group, and
\* failed on its mode 640
C29_Witness ==
    /\ unit.fn = "test_connection" /\ unit.called
    /\ unit.key.exists /\ unit.key.mode % 512 = 416
    /\ unit.stop = "none" /\ unit.cause = "UnsafeKeyMode"
    /\ ~unit.result.v.ok

\* with a key file that only its owner can use, and no call failing, the
\* session is established after the public-key authentication
SafeKeyAuthenticates ==
    /\ unit.fn = "test_connection" /\ unit.called
    /\ unit.key.exists /\ unit.key.mode % 512 = 384
    /\ unit.auth_attempted /\ session = "Some" /\ unit.result.v.ok

(***************************************************************************)
(* C38.                                                                     *)
(***************************************************************************)
EntriesOf(h) == {h.entries[i] : i \in 1..Len(h.entries)}

\* C38: the stored history never holds more than 100 entries, and an
\* add_backup_entry that discards entries keeps 100 of the entries it had
\* after the push, none of them older than an entry it discarded.
C38_NewestHundredKept ==
    /\ [](Len(history.entries) <= HISTORY_LIMIT)
    /\ [][(/\ reply'.calls = reply.calls + 1
           /\ reply'.fn = "add_backup_entry" /\ reply'.ok
           /\ Len(history.entries) + 1 > HISTORY_LIMIT)
          => LET pushed == EntriesOf(history) \cup {reply'.v}
                 kept == EntriesOf(history')
             IN /\ kept \subseteq pushed
                /\ Cardinality(kept) = HISTORY_LIMIT
                /\ \A k \in kept, d \in pushed \ kept : k.timestamp >= d.timestamp]_vars

\* an entry newer than all others was added to a full history: it is kept, it
\* stands first, and an older entry is gone
C38_Witness ==
    /\ reply.fn = "add_backup_entry" /\ reply.ok
    /\ Len(history.entries) = HISTORY_LIMIT
    /\ history.total_backups > HISTORY_LIMIT
    /\ history.entries[1] = reply.v
    /\ reply.v.timestamp = 300

(***************************************************************************)
(* C39.                                                                     *)
(***************************************************************************)
\* C39: after any sequence of add_backup_entry, delete_backup_entry and
\* clear_history, successful_backups + failed_backups <= total_backups and
\* total_backups >= the number of stored entries, and a delete_backup_entry
\* that finds its entry lowers total_backups by exactly one.
C39_CountersStayConsistent ==
    /\ [](/\ history.successful_backups + history.failed_backups <= history.total_backups
          /\ history.total_backups >= Len(history.entries))
    /\ [][(/\ reply'.calls = reply.calls + 1
           /\ reply'.fn = "delete_backup_entry" /\ reply'.ok /\ reply'.v = TRUE)
          => history'.total_backups = history.total_backups - 1]_vars

\* the two inequalities between the counters, which hold
CountersBounded ==
    /\ history.successful_backups + history.failed_backups <= history.total_backups
    /\ history.total_backups >= Len(history.entries)

\* an entry was deleted from a history that had discarded an entry before
DeletedAfterDiscard ==
    /\ reply.fn = "delete_backup_entry" /\ reply.ok /\ reply.v = TRUE
    /\ Len(history.entries) = HISTORY_LIMIT - 1
    /\ history.total_backups = HISTORY_LIMIT - 1

(***************************************************************************)
(* C31.                                                                     *)
(***************************************************************************)
\* the command has returned
Returned == reply.fn = "backup_xserver_folder"

\* C31: when backup_xserver_folder has returned, the history holds exactly
\* one entry of this run, with status Success after a successful run,
\* Cancelled after a run the cancellation signal stopped, and Failed after
\* any other failure.
C31_OneEntryWithTheStatusOfTheOutcome ==
    Returned =>
        /\ Len(history.entries) = 1
        /\ history.entries[1].status =
              IF outcome.kind = "Ok" THEN "Success"
              ELSE IF outcome.cause = "Cancelled" THEN "Cancelled"
              ELSE "Failed"

\* what the code does: at most one entry, Success after a successful run and
\* Failed after every other one
EntryIsSuccessOrFailed ==
    Returned =>
        /\ Len(history.entries) <= 1
        /\ \A i \in 1..Len(history.entries) :
              history.entries[i].status = IF outcome.kind = "Ok" THEN "Success" ELSE "Failed"

\* a cancelled run was recorded, as Failed
CancelledRunRecordedFailed ==
    /\ Returned /\ Cancelled
    /\ Len(history.entries) = 1 /\ history.entries[1].status = "Failed"

(***************************************************************************)
(* C36.                                                                     *)
(***************************************************************************)
PinEnabled == auth_settings.is_enabled /\ auth_settings.pin_hash.some
\* a step of verify_pin; the PIN it was called with is reply'.v.pin
VerifyStep == reply'.fn = "verify_pin" /\ now' = now
LockoutRunning ==
    /\ lockout_info.is_locked
    /\ now < lockout_info.last_attempt_timestamp + auth_settings.lockout_duration_minutes * 60

C37_ExpiredLockoutStartsFromZero ==
    [][(/\ VerifyStep /\ PinEnabled
        /\ lockout_info.is_locked /\ ~LockoutRunning
        /\ ~verify_password(reply'.v.pin, auth_settings.pin_hash.v))
       => /\ ~lockout_info'.is_locked
          /\ lockout_info'.failed_attempts = 1
          /\ reply'.v.remaining = auth_settings.max_attempts - 1]_vars

\* a wrong PIN after the lockout had elapsed locked the account again, as
\* the attempt after the last one allowed
LockedAgainAfterExpiry ==
    /\ PinEnabled /\ lockout_info.is_locked
    /\ lockout_info.failed_attempts = auth_settings.max_attempts + 1
    /\ reply.fn = "verify_pin" /\ reply.v.msg = "wrong pin, locked out"

\* a correct PIN after the lockout has elapsed is accepted
ExpiredLockoutAcceptsCorrectPin ==
    [][(/\ VerifyStep /\ PinEnabled
        /\ lockout_info.is_locked /\ ~LockoutRunning
        /\ verify_password(reply'.v.pin, auth_settings.pin_hash.v))
       => (reply'.ok /\ lockout_info' = LockoutInfoDefault)]_vars

(***************************************************************************)
(* C33.                                                                     *)
(***************************************************************************)
\* C33: a run during which cancel_backup was called before the last
\* checkpoint was passed, and in which nothing else failed, ends Cancelled,
\* whatever other commands ran in between; it copies at most the file whose
\* checkpoint had been passed when the request was made.
C33_CancelRequestIsNeverLost ==
    (Done /\ sig.set /\ ~sig.late /\ failed \in {"none", "Cancelled"}) => Cancelled

\* the request was made in time, a second backup_xserver_folder reset the
\* flag before the engine polled it, and the run ended as a success
CancelLostToSecondBackup ==
    /\ Success /\ sig.set /\ sig.cleared /\ ~sig.late
    /\ ~cancel_flag

(***************************************************************************)
(* C34.                                                                     *)
(***************************************************************************)
\* C34: a test_connection that fails, at whichever call, leaves the session
\* field as it was before the call (absent, or the session of the earlier
\* call); only a test_connection in which every call up to the close of the
\* echo channel succeeded stores its session.
C34_SessionStoredOnlyOnSuccess ==
    (unit.fn = "test_connection" /\ unit.called) =>
        IF unit.result.v.ok
        THEN unit.cause = "none" /\ unit.stop = "none" /\ unit.holds = Some("this")
        ELSE /\ unit.holds = unit.held
             /\ session = IF unit.held.some THEN "Some" ELSE "None"

\* the close of the echo channel failed on a client that held a session:
\* authentication had succeeded, and the client still holds the earlier one
C34_Witness ==
    /\ unit.fn = "test_connection" /\ unit.called
    /\ unit.stop = "wait_close" /\ unit.auth_attempted /\ ~unit.result.v.ok
    /\ unit.held = Some("earlier") /\ unit.holds = Some("earlier")

(***************************************************************************)
(* C35.                                                                     *)
(***************************************************************************)
\* C35: the text classify_error returns for a message is classified, by a
\* second classify_error, into the category of the message: the second
\* result is the template of that category in front of the first result.
C35_ReclassificationKeepsCategory ==
    (unit.fn = "classify_error" /\ unit.twice) =>
        /\ Category(unit.result) = Category(unit.error)
        /\ unit.again = TemplateOf(Category(unit.error)) \o unit.result

\* a message with "timed out" in it was classified twice, each time as a
\* timeout
C35_Witness ==
    /\ unit.fn = "classify_error" /\ unit.twice
    /\ Category(unit.error) = "Timeout"
    /\ HasTemplate(unit.result, TimeoutTemplate)
    /\ HasTemplate(unit.again, TimeoutTemplate \o TimeoutTemplate)

\* the message of a failed handshake was classified twice, each time as an
\* error of no category
EstablishFailureClassifiedTwice ==
    /\ unit.fn = "classify_error" /\ unit.twice
    /\ unit.error \in {f.msg : f \in EstablishFailures}
    /\ HasTemplate(unit.again, FallbackTemplate \o FallbackTemplate)

(***************************************************************************)
(* C32.                                                                     *)
(***************************************************************************)
\* C32: under fairness every invocation that was started comes to its
\* outcome, whatever the remote tree, and no directory deeper than 50 levels
\* is created, listed or walked on the way.  (DeepChain(MAX_DEPTH + 1) is
\* what the traversal sees of a directory that contains itself.)
C32_EveryInvocationEnds ==
    /\ [](InsideDirectory => Top.depth <= MAX_DEPTH)
    /\ (pc # "idle") ~> Done

\* the traversal went down a chain of directories to level 51, where the
\* depth guard ended the run
C32_Witness ==
    /\ Done /\ deepest = MAX_DEPTH + 1
    /\ failed = "RecursionTooDeep" /\ outcome.kind = "Err"
    /\ stack = <<>>
====
